---- MODULE Spec2Model ----
(***************************************************************************)
(* Model of the acquisition and trigger core of the two-channel logic      *)
(* analyzer: LogicAnalyzerManager of logic_analyzer.py together with the   *)
(* routes of app.py that call it or write its fields directly.             *)
(*                                                                         *)
(* The manager is shared by three kinds of threads: the acquisition loop,  *)
(* the streaming loop (the dispatcher) and the request threads of the      *)
(* server.  A step of the model is one step of one thread: a statement of  *)
(* a control call, or a line of a loop that reads or writes a field of the *)
(* manager.  The place of a loop, and of a call of start_acquisition,      *)
(* stop_acquisition or the route /logic/clear, is the number of the line   *)
(* of logic_analyzer.py (of app.py for the route) it is about to run.      *)
(* Lines that touch only locals run with the line before them; the wait    *)
(* for buffer_lock runs with the first line of the locked region and its   *)
(* release with the last one.  The arguments of a call that spans several  *)
(* lines are read line by line, and the call runs after the last of them.  *)
(*                                                                         *)
(* Time is an integer clock whose unit is one sampling interval at the     *)
(* default rate (1 / 10000 s).  Every element stored in a buffer carries   *)
(* the number of the sample it comes from, <<tick, value>>, so that the    *)
(* alignment of the three buffers can be stated; the code stores value     *)
(* alone.                                                                  *)
(***************************************************************************)
EXTENDS Integers, Sequences, FiniteSets, TLC

(* ---- bounds: the capacities and durations of __init__, scaled down ---- *)
buffer_size == 4
pre_trigger_buffer_size == 2
post_trigger_buffer_size == 2
trigger_timeout == 3
RearmDelay == 1
MinWindow == 2
JoinTimeout == 1

(* time.time() when the manager is constructed; later than every delay *)
Epoch == RearmDelay + trigger_timeout + 1

(* the clock counts sampling intervals of the default rate: 10000 units    *)
(* are one second                                                          *)
ClockRate == 10000

(* None, as trigger_start_time holds it: falsy like 0 at its only read *)
None == 0

(* None, as chip holds it; cleanup_gpio takes it, like handle 0, for false *)
NoChip == -1

(* the handles lgpio.gpiochip_open can return: any integer >= 0; zero and  *)
(* a positive one                                                          *)
GpioHandles == { 0, 1 }

(* what lgpio and the socket answer during a start_acquisition:           *)
(* gpiochip_open raises (opened is NoChip), or it returns a handle and a   *)
(* gpio_claim_input raises, or it returns a handle and the four lines are  *)
(* claimed; error is str(e) of the exception raised; closes tells whether  *)
(* gpiochip_close goes through; fails is the line of the call at which     *)
(* socketio.emit raises, 0 when it does not                                *)
GpioOutcomes ==
    { [ opened |-> NoChip, claimed |-> FALSE, closes |-> k,
        error |-> "can not open gpiochip", fails |-> 0 ] : k \in BOOLEAN }
    \cup { [ opened |-> h, claimed |-> FALSE, closes |-> k,
             error |-> "GPIO busy", fails |-> 0 ]
           : h \in GpioHandles, k \in BOOLEAN }
    \cup { [ opened |-> h, claimed |-> TRUE, closes |-> k,
             error |-> "", fails |-> 0 ]
           : h \in GpioHandles, k \in BOOLEAN }
    \cup { [ opened |-> h, claimed |-> TRUE, closes |-> k,
             error |-> "socket closed", fails |-> 134 ]
           : h \in GpioHandles, k \in BOOLEAN }

(* lgpio answers with the handle 1, claims the four lines and closes the   *)
(* chip; the socket takes the event                                        *)
GpioWorks == { [ opened |-> 1, claimed |-> TRUE, closes |-> TRUE,
                 error |-> "", fails |-> 0 ] }

(* the four lines (ch1+, ch1-, ch2+, ch2-) as one gpio_read sweep sees them *)
PinReads == { <<0, 0, 0, 0>>, <<1, 0, 0, 0>>, <<0, 1, 1, 0>> }

(* every sweep: each gpio_read returns 0 or 1 *)
AllPinReads ==
    { <<a, b, c, d>> : a \in { 0, 1 }, b \in { 0, 1 },
                       c \in { 0, 1 }, d \in { 0, 1 } }

(* the sweeps of the long trigger runs: channel 2 is channel 1 inverted *)
PinReadsTrig == { <<0, 0, 0, 0>>, <<1, 0, 0, 1>>, <<0, 1, 1, 0>> }

(* the arguments (enabled, channel, edge, level) the callers pass to        *)
(* set_trigger_config                                                      *)
TriggerConfigs == { <<TRUE, "ch1", "rising", 0>>,
                    <<TRUE, "ch2", "falling", 1>>,
                    <<FALSE, "ch1", "rising", 0>> }

(* the call that enables the trigger on the rising edge of channel 1 *)
TriggerOn == { <<TRUE, "ch1", "rising", 0>> }

(* the arguments the callers pass to set_timebase, in microseconds per      *)
(* division: below the minimum, inside the range, above the maximum        *)
Timebases == { 5, 35, 300, 20000000 }

(* the limits of set_timebase, 0.00001 s and 10.0 s, in microseconds *)
timebase_min == 10
timebase_max == 10000000

(* floats, in microseconds.  The finite ones are integers; the infinities  *)
(* are beyond every finite argument; NaN is a value of its own, and every  *)
(* ordering comparison with it is false                                    *)
PosInf == 2000000000
NegInf == -2000000000
NaN == -2147483647

float_lt(x, y) == x # NaN /\ y # NaN /\ x < y
float_gt(x, y) == x # NaN /\ y # NaN /\ x > y
float_le(x, y) == x # NaN /\ y # NaN /\ x <= y

(* the arguments of set_trigger_config in the sessions that are started    *)
(* and stopped: valid ones, and one with each parameter out of its set     *)
TriggerConfigsLife == { <<TRUE, "ch1", "rising", 0>>,
                        <<TRUE, "ch3", "rising", 0>>,
                        <<TRUE, "ch1", "both", 0>>,
                        <<FALSE, "ch1", "rising", 2>> }

(* the arguments of set_sampling_rate, in tenths of a hertz: 10000, 3000   *)
(* and 2500.7                                                              *)
SamplingRates == { 100000, 30000, 25007 }

(* the arguments of set_sampling_rate in the sessions that follow the      *)
(* window, in tenths of a hertz: 10000 and 1000                            *)
SamplingRatesWin == { 100000, 10000 }

(* the arguments of set_timebase in the sessions that follow the window,   *)
(* in microseconds per division                                            *)
TimebasesWin == { 5, 35, 300 }


(* the request threads of the server, which serves every request in a     *)
(* thread of its own (async_mode='threading', app.py line 35): two calls   *)
(* can be under way at the same time                                       *)
Requests == { 1, 2 }

VARIABLES
    mgr,        \* the fields of the LogicAnalyzerManager object
    acq,        \* the Thread objects made around _acquisition_loop, in
                \* the order of their making: liveness, position, locals
    strm,       \* the Thread objects made around _streaming_loop
    ctl,        \* the request threads: the control call each is in
    now,        \* time.time()
    emitted,    \* the events the last step handed to socketio.emit
    log         \* every sample read so far, <<ch1_diff, ch2_diff, time>>

vars == <<mgr, acq, strm, ctl, now, emitted, log>>

(* ------------------------------ helpers -------------------------------- *)

Max(a, b) == IF a >= b THEN a ELSE b
Min(a, b) == IF a <= b THEN a ELSE b

(* the last n elements of s *)
Suffix(s, n) == IF Len(s) <= n THEN s ELSE SubSeq(s, Len(s) - n + 1, Len(s))

(* deque_append as a buffer that refuses the new element when full *)
deque_append_keeps_oldest(d, x, cap) ==
    IF Len(d) >= cap THEN d ELSE Append(d, x)

(* deque_append as a list append: nothing is ever dropped *)
deque_append_unbounded(d, x, cap) == Append(d, x)

(* deque(maxlen = cap).append(x): the oldest element is dropped when full *)
deque_append(d, x, cap) == Suffix(Append(d, x), cap)

(* deque(maxlen = cap).extend(xs) *)
deque_extend(d, xs, cap) == Suffix(d \o xs, cap)

(* the two lines of a channel added instead of subtracted *)
differential_sum(pos, neg) == pos + neg

(* lines 297-301: pos - neg on the two readings of a channel *)
differential(pos, neg) == pos - neg

(* line 242: the transition from <= 0 to >= 1; no field of the manager is  *)
(* read                                                                    *)
rising_edge(m, prev_ch_value, curr_ch_value) ==
    prev_ch_value <= 0 /\ curr_ch_value >= 1

(* line 245: the transition from >= 1 to <= 0 *)
falling_edge(m, prev_ch_value, curr_ch_value) ==
    prev_ch_value >= 1 /\ curr_ch_value <= 0

(* _check_trigger_condition, lines 237-247, when no field changes while    *)
(* it runs                                                                 *)
check_trigger_condition(m, prev_ch_value, curr_ch_value) ==
    IF ~m.trigger_enabled \/ ~m.trigger_armed THEN FALSE
    ELSE IF m.trigger_edge = "rising"
         THEN rising_edge(m, prev_ch_value, curr_ch_value)
    ELSE IF m.trigger_edge = "falling"
         THEN falling_edge(m, prev_ch_value, curr_ch_value)
    ELSE FALSE

(* int(rate) of a number of tenths: the fraction is dropped, towards zero *)
int_of(tenths) ==
    IF tenths >= 0 THEN tenths \div 10 ELSE 0 - ((0 - tenths) \div 10)

(* line 273: 1.0 / self.sampling_rate in units of the clock, as the       *)
(* fraction <<numerator, denominator>>                                     *)
sample_interval_of(rate) == <<ClockRate, rate>>

(* current_time - last_sample_time >= sample_interval, line 285, elapsed   *)
(* being the difference                                                    *)
interval_elapsed(elapsed, interval) ==
    IF interval[2] > 0 THEN elapsed * interval[2] >= interval[1]
    ELSE elapsed * interval[2] <= interval[1]


(* ------------------------------- state --------------------------------- *)

(* buffer_lock when no thread holds it; a holder is <<"acq", ident>>,      *)
(* <<"strm", ident>> or <<"ctl", ident>>                                   *)
Free == <<"none", 0>>

(* threading.Thread(target=self._acquisition_loop), line 137: a thread     *)
(* that is not started; ident tells it from the threads made before.  pc   *)
(* is the line the thread is about to run, tick numbers the sample it      *)
(* holds, ld the number of fields of the manager the line under way has    *)
(* loaded: a test of several fields loads them one after the other, and    *)
(* another thread can run between two loads.  The locals have no value     *)
(* before the lines 273-278 give them one                                  *)
NewAcq(ident) ==
    [ ident |-> ident, started |-> FALSE, alive |-> FALSE, pc |-> 273,
      ld |-> 0,
      sample_interval |-> <<0, 1>>,
      last_sample_time |-> 0, prev_ch1_diff |-> 0, prev_ch2_diff |-> 0,
      post_trigger_count |-> 0,
      current_time |-> 0, ch1_diff |-> 0, ch2_diff |-> 0, tick |-> 0,
      trigger_channel_prev |-> 0, trigger_channel_curr |-> 0,
      event_channel |-> "", event_edge |-> "" ]

(* lines 274-278: the locals of an acquisition loop that comes to its loop *)
(* condition at the time t                                                 *)
AcqLocals(a, t) ==
    [ a EXCEPT !.pc = 280, !.ld = 0, !.last_sample_time = t,
               !.prev_ch1_diff = 0, !.prev_ch2_diff = 0,
               !.post_trigger_count = 0 ]

(* threading.Thread(target=self._streaming_loop), line 142, with the       *)
(* locals of lines 463-464: a thread that is not started, at its loop      *)
(* condition                                                               *)
StrmLocals(ident) ==
    [ ident |-> ident, started |-> FALSE, alive |-> FALSE,
      pc |-> 466, ld |-> 0, last_rearm_time |-> 0,
      current_time |-> 0, buffer_size |-> 0, target_time_window |-> 0,
      target_samples |-> 0, start_idx |-> 0,
      sampling_rate |-> 0, timebase |-> 0,
      ch1_data |-> <<>>, ch2_data |-> <<>>, timestamps |-> <<>>,
      trigger_armed |-> FALSE, trigger_captured |-> FALSE ]

(* Thread.start(), lines 139 and 144 *)
thread_start(thread) == [ thread EXCEPT !.started = TRUE, !.alive = TRUE ]

(* a request thread: the call under way (op, pc, its arguments), the       *)
(* number of calls it has finished, and the last finished call with its    *)
(* result; what lgpio and the socket answer during the call: the handle    *)
(* gpiochip_open returns (NoChip when it raises), whether every            *)
(* gpio_claim_input goes through, whether gpiochip_close goes through,     *)
(* the text of the exception raised, the line at which socketio.emit       *)
(* raises.  Inside a join, joined is the thread waited for and since the   *)
(* time the join began; ret is the line cleanup_gpio returns to; nested    *)
(* tells that stop_acquisition runs for the except clause of               *)
(* start_acquisition, caught being str(e) of the exception caught there    *)
NoCall(ident) ==
    [ ident |-> ident, op |-> "idle", pc |-> 0, enabled |-> FALSE,
      channel |-> "ch1", edge |-> "rising", level |-> 0, calls |-> 0,
      since |-> 0, joined |-> 0, ret |-> 0, nested |-> FALSE,
      caught |-> "",
      last |-> "none", ok |-> TRUE, message |-> "",
      opened |-> NoChip, claimed |-> FALSE, closes |-> TRUE,
      error |-> "", fails |-> 0 ]

(* __init__; acquisition_thread and stream_thread are the places of the    *)
(* threads in acq and strm, 0 for None                                     *)
NewManager ==
    [ acquiring |-> FALSE,
      lgpio_available |-> TRUE,
      chip |-> NoChip,
      stop_event |-> FALSE,
      sampling_rate |-> 10000,
      timebase |-> timebase_min,
      ch1_diff_buffer |-> <<>>,
      ch2_diff_buffer |-> <<>>,
      timestamp_buffer |-> <<>>,
      trigger_enabled |-> FALSE,
      trigger_channel |-> "ch1",
      trigger_edge |-> "rising",
      trigger_level |-> 0,
      trigger_armed |-> FALSE,
      trigger_captured |-> FALSE,
      trigger_displayed |-> FALSE,
      trigger_start_time |-> None,
      pre_trigger_ch1 |-> <<>>,
      pre_trigger_ch2 |-> <<>>,
      pre_trigger_timestamps |-> <<>>,
      acquisition_thread |-> 0,
      stream_thread |-> 0,
      buffer_lock |-> Free ]

(* no request is being served *)
NoCalls == [ r \in Requests |-> NoCall(r) ]

Init ==
    /\ mgr = NewManager
    /\ acq = <<>>
    /\ strm = <<>>
    /\ ctl = NoCalls
    /\ now = Epoch
    /\ emitted = <<>>
    /\ log = <<>>

(* ------------------- floats: timebase * 10 * sampling_rate ------------- *)

(* A float that is not zero is kept as the binary digits of its            *)
(* significand, the first digit 1, at most mant_dig of them, and the       *)
(* exponent e of the last digit: its value is the number the digits spell  *)
(* times 2^e.  Long numbers are worked on ten digits at a time.            *)

(* sys.float_info.mant_dig *)
mant_dig == 53

(* digit i of the digits, 0 where there is none *)
digit_at(digits, i) == IF i >= 1 /\ i <= Len(digits) THEN digits[i] ELSE 0

(* the number spelled by the j-th group of ten digits, counted from the    *)
(* last digit, the first group being group 0                               *)
group_of(digits, j) ==
    LET p == Len(digits) - 10 * j
    IN digit_at(digits, p) + 2 * digit_at(digits, p - 1)
       + 4 * digit_at(digits, p - 2) + 8 * digit_at(digits, p - 3)
       + 16 * digit_at(digits, p - 4) + 32 * digit_at(digits, p - 5)
       + 64 * digit_at(digits, p - 6) + 128 * digit_at(digits, p - 7)
       + 256 * digit_at(digits, p - 8) + 512 * digit_at(digits, p - 9)

(* the digits of the groups, the first group first *)
digits_of_groups(groups) ==
    [ i \in 1..(10 * Len(groups)) |->
        (groups[((i - 1) \div 10) + 1] \div 2 ^ (9 - ((i - 1) % 10))) % 2 ]

(* the digits from the first 1 on *)
from_first_one(digits) ==
    LET ones == { i \in 1..Len(digits) : digits[i] = 1 }
    IN IF ones = {} THEN <<>>
       ELSE SubSeq(digits, CHOOSE i \in ones : \A j \in ones : i <= j,
                   Len(digits))

(* the digits plus one in the last place *)
digits_succ(digits) ==
    LET zeros == { i \in 1..Len(digits) : digits[i] = 0 }
    IN IF zeros = {} THEN <<1>> \o [ i \in 1..Len(digits) |-> 0 ]
       ELSE LET p == CHOOSE i \in zeros : \A j \in zeros : i >= j
            IN [ i \in 1..Len(digits) |->
                   IF i < p THEN digits[i] ELSE IF i = p THEN 1 ELSE 0 ]

(* the first n groups of the digits of rem / den behind the point, and     *)
(* what is left to divide                                                  *)
quotient_groups(rem, den, n) ==
    LET left[i \in 0..n] ==
            IF i = 0 THEN rem ELSE (left[i - 1] * 1024) % den
    IN [ groups |-> [ i \in 1..n |-> (left[i - 1] * 1024) \div den ],
         rem |-> left[n] ]

(* the groups of digits * k, two groups longer than the digits *)
product_groups(digits, k) ==
    LET n == (Len(digits) + 9) \div 10
        v[j \in 0..n] ==
            group_of(digits, j) * k
              + (IF j = 0 THEN 0 ELSE v[j - 1] \div 1024)
        carry == IF n = 0 THEN 0 ELSE v[n - 1] \div 1024
    IN <<carry \div 1024, carry % 1024>>
         \o [ i \in 1..n |-> v[n - i] % 1024 ]

(* the float nearest to the number the digits spell times 2^e, plus a      *)
(* positive rest below the last digit when inexact; a tie goes to the even *)
(* neighbour, as IEEE 754 arithmetic rounds                                *)
round_to_float(digits, e, inexact) ==
    IF Len(digits) <= mant_dig THEN [ digits |-> digits, e |-> e ]
    ELSE LET kept == SubSeq(digits, 1, mant_dig)
             more == inexact \/ \E i \in (mant_dig + 2)..Len(digits) :
                                    digits[i] = 1
             up == digits[mant_dig + 1] = 1 /\ (more \/ kept[mant_dig] = 1)
             next == IF up THEN digits_succ(kept) ELSE kept
             shift == Len(digits) - mant_dig
         IN IF Len(next) > mant_dig
            THEN [ digits |-> SubSeq(next, 1, mant_dig), e |-> e + shift + 1 ]
            ELSE [ digits |-> next, e |-> e + shift ]

(* float(n / den) for integers 0 < n < 32 * den, den <= 1000000: eighty    *)
(* digits behind the point are more than a float keeps of such a quotient  *)
float_of_ratio(n, den) ==
    LET q == quotient_groups(n % den, den, 8)
    IN round_to_float(from_first_one(digits_of_groups(<<n \div den>>
                                                          \o q.groups)),
                      -80, q.rem # 0)

(* x * k in float arithmetic, k an integer, 0 < k < 1000000 *)
float_times(x, k) ==
    round_to_float(from_first_one(digits_of_groups(
                       product_groups(x.digits, k))),
                   x.e, FALSE)

(* int(x) for a float below 2^30: the digits before the point *)
int_of_float(x) ==
    LET whole == SubSeq(x.digits, 1, Len(x.digits) + x.e)
    IN group_of(whole, 0) + 1024 * group_of(whole, 1)
       + 1048576 * group_of(whole, 2)

(* lines 515-516: int(self.timebase * 10 * self.sampling_rate), timebase   *)
(* the float nearest to the given number of microseconds                   *)
float_target_samples(timebase, sampling_rate) ==
    int_of_float(float_times(float_times(float_of_ratio(timebase, 1000000),
                                         10), sampling_rate))

(* the timebases, in microseconds, and the sampling rates, in Hz, that the *)
(* manager can hold in the sessions followed here                          *)
HeldTimebases ==
    { Max(timebase_min, Min(timebase_max, tb)) :
        tb \in Timebases \cup TimebasesWin }
HeldSamplingRates ==
    { int_of(rate) : rate \in SamplingRates \cup SamplingRatesWin }

(* int(self.timebase * 10 * self.sampling_rate) for each of them *)
target_samples_of ==
    [ timebase \in HeldTimebases, sampling_rate \in HeldSamplingRates |->
        float_target_samples(timebase, sampling_rate) ]

(* lines 515-516: int(target_time_window * self.sampling_rate), the window *)
(* being ten times the timebase given; the timebase is held in             *)
(* microseconds and sampling_rate in Hz                                    *)
target_samples(timebase, sampling_rate) ==
    target_samples_of[timebase, sampling_rate]

(* ------------------------- _acquisition_loop --------------------------- *)

(* lines 289-301: the four lines are read and the two differences are      *)
(* formed; id numbers the sample                                           *)
acq_read(a, pins, id) ==
    [ a EXCEPT !.ch1_diff = differential(pins[1], pins[2]),
               !.ch2_diff = differential(pins[3], pins[4]),
               !.tick = id ]

(* the timing check finding a sample due on every pass *)
acq_due_every_pass(a, t) == TRUE

(* line 285: the timing check on the clock as line 282 read it *)
acq_due(a, t) == interval_elapsed(t - a.last_sample_time, a.sample_interval)

(* the quota reached one sample later *)
quota_reached_after_trigger(post_trigger_count) ==
    post_trigger_count > post_trigger_buffer_size

(* line 343: the post-trigger quota *)
quota_reached(post_trigger_count) ==
    post_trigger_count >= post_trigger_buffer_size

(* line 358, the second operand: the timeout measured from                *)
(* trigger_start_time as the second load of the line finds it              *)
timed_out(m, a) ==
    a.current_time - m.trigger_start_time > trigger_timeout

(* the "with" block left and the lock kept *)
with_exit_keeps_lock(m) == m

(* the __exit__ of "with self.buffer_lock": the lock is released however   *)
(* the block is left                                                       *)
with_exit(m) == [ m EXCEPT !.buffer_lock = Free ]

(* lines 367-370: the bookkeeping that ends a pass; the locals of the edge *)
(* test and of the events are dead                                         *)
acq_next_pass(a) ==
    [ a EXCEPT !.pc = 280,
               !.ld = 0,
               !.prev_ch1_diff = a.ch1_diff,
               !.prev_ch2_diff = a.ch2_diff,
               !.last_sample_time = a.current_time,
               !.trigger_channel_prev = 0,
               !.trigger_channel_curr = 0,
               !.event_channel = "",
               !.event_edge = "" ]

(* The line a.pc of the acquisition loop, run by a live thread at the time *)
(* t when nothing raises: the manager and the locals afterwards and the    *)
(* events handed to socketio.emit.  pins are the levels of the lines, id   *)
(* numbers the sample.  Line 306 takes buffer_lock.  The calls of          *)
(* socketio.emit, lines 326 and 361, run after the lines that read their   *)
(* arguments, 327-329 and 362-364.  The tests of lines 280, 308, 237, 357  *)
(* and 358 load their fields one by one, left to right, a step for each    *)
(* load: the test stops at the first load that decides it.                 *)
acquisition_line(m, a, t, pins, id) ==
    LET s1 == <<a.tick, a.ch1_diff>>
        s2 == <<a.tick, a.ch2_diff>>
        st == <<a.tick, a.current_time>>
        Goto(pc) ==
            [ m |-> m, a |-> [ a EXCEPT !.pc = pc, !.ld = 0 ], ev |-> <<>> ]
        Loaded == [ m |-> m, a |-> [ a EXCEPT !.ld = @ + 1 ], ev |-> <<>> ]
        Local(a2, pc) ==
            [ m |-> m, a |-> [ a2 EXCEPT !.pc = pc ], ev |-> <<>> ]
        Field(m2, pc) ==
            [ m |-> m2, a |-> [ a EXCEPT !.pc = pc ], ev |-> <<>> ]
        Done(ev) ==
            [ m |-> with_exit(m), a |-> acq_next_pass(a), ev |-> ev ]
    IN IF a.pc = 273
       THEN Local([ a EXCEPT !.sample_interval =
                        sample_interval_of(m.sampling_rate) ], 274)
       ELSE IF a.pc = 274
       THEN \* lines 274-278
            Local(AcqLocals(a, t), 280)
       ELSE IF a.pc = 280
       THEN \* self.acquiring was true; then self.stop_event is not set
            IF a.ld = 0 THEN Loaded ELSE Goto(282)
       ELSE IF a.pc = 282
       THEN \* lines 282-285 and, when no sample is due, 373
            IF acq_due(a, t)
            THEN Local([ a EXCEPT !.current_time = t ], 293)
            ELSE Goto(280)
       ELSE IF a.pc = 293
       THEN \* lines 286-304
            Local(acq_read(a, pins, id), 306)
       ELSE IF a.pc = 306
       THEN Field([ m EXCEPT !.buffer_lock = <<"acq", a.ident>> ], 308)
       ELSE IF a.pc = 308
       THEN \* enabled and armed and not captured
            IF a.ld = 0
            THEN IF m.trigger_enabled THEN Loaded ELSE Goto(333)
            ELSE IF a.ld = 1
            THEN IF m.trigger_armed THEN Loaded ELSE Goto(333)
            ELSE IF ~m.trigger_captured THEN Goto(309) ELSE Goto(333)
       ELSE IF a.pc = 309
       THEN Local([ a EXCEPT !.trigger_channel_prev =
                        IF m.trigger_channel = "ch1" THEN a.prev_ch1_diff
                        ELSE a.prev_ch2_diff ], 310)
       ELSE IF a.pc = 310
       THEN \* lines 310-312: the call of _check_trigger_condition
            Local([ a EXCEPT !.trigger_channel_curr =
                        IF m.trigger_channel = "ch1" THEN a.ch1_diff
                        ELSE a.ch2_diff ], 237)
       ELSE IF a.pc = 237
       THEN \* not enabled or not armed
            IF a.ld = 0
            THEN IF ~m.trigger_enabled THEN Goto(333) ELSE Loaded
            ELSE IF ~m.trigger_armed THEN Goto(333) ELSE Goto(240)
       ELSE IF a.pc = 240
       THEN IF m.trigger_edge = "rising"
            THEN IF rising_edge(m, a.trigger_channel_prev,
                                a.trigger_channel_curr)
                 THEN Goto(314) ELSE Goto(333)
            ELSE Goto(243)
       ELSE IF a.pc = 243
       THEN IF m.trigger_edge = "falling"
               /\ falling_edge(m, a.trigger_channel_prev,
                               a.trigger_channel_curr)
            THEN Goto(314) ELSE Goto(333)
       ELSE IF a.pc = 314
       THEN Field([ m EXCEPT !.trigger_captured = TRUE ], 315)
       ELSE IF a.pc = 315
       THEN \* lines 315-317
            [ m |-> [ m EXCEPT !.trigger_displayed = FALSE ],
              a |-> [ a EXCEPT !.post_trigger_count = 0, !.pc = 320 ],
              ev |-> <<>> ]
       ELSE IF a.pc = 320
       THEN IF Len(m.pre_trigger_ch1) > 0 THEN Goto(321) ELSE Goto(327)
       ELSE IF a.pc = 321
       THEN Field([ m EXCEPT !.ch1_diff_buffer =
                        deque_extend(@, m.pre_trigger_ch1, buffer_size) ],
                  322)
       ELSE IF a.pc = 322
       THEN Field([ m EXCEPT !.ch2_diff_buffer =
                        deque_extend(@, m.pre_trigger_ch2, buffer_size) ],
                  323)
       ELSE IF a.pc = 323
       THEN Field([ m EXCEPT !.timestamp_buffer =
                        deque_extend(@, m.pre_trigger_timestamps,
                                     buffer_size) ], 327)
       ELSE IF a.pc \in { 327, 362 }
       THEN Local([ a EXCEPT !.event_channel = m.trigger_channel ],
                  a.pc + 1)
       ELSE IF a.pc = 328
       THEN Local([ a EXCEPT !.event_edge = m.trigger_edge ], 326)
       ELSE IF a.pc = 363
       THEN \* lines 363-364
            Local([ a EXCEPT !.event_edge = m.trigger_edge ], 361)
       ELSE IF a.pc = 326
       THEN \* the call of lines 326-330
            [ m |-> m, a |-> [ a EXCEPT !.pc = 333 ],
              ev |-> << [ type |-> "trigger_captured",
                          trigger_channel |-> a.event_channel,
                          trigger_edge |-> a.event_edge,
                          trigger_time |-> a.current_time ] >> ]
       ELSE IF a.pc = 333
       THEN IF m.trigger_enabled THEN Goto(335) ELSE Goto(352)
       ELSE IF a.pc = 335
       THEN IF m.trigger_captured THEN Goto(337) ELSE Goto(347)
       ELSE IF a.pc = 337
       THEN Field([ m EXCEPT !.ch1_diff_buffer =
                        deque_append(@, s1, buffer_size) ], 338)
       ELSE IF a.pc = 338
       THEN Field([ m EXCEPT !.ch2_diff_buffer =
                        deque_append(@, s2, buffer_size) ], 339)
       ELSE IF a.pc = 339
       THEN \* lines 339-343
            [ m |-> [ m EXCEPT !.timestamp_buffer =
                          deque_append(@, st, buffer_size) ],
              a |-> [ a EXCEPT !.post_trigger_count = @ + 1,
                               !.pc = IF quota_reached(
                                          a.post_trigger_count + 1)
                                      THEN 344 ELSE 357 ],
              ev |-> <<>> ]
       ELSE IF a.pc = 344
       THEN Field([ m EXCEPT !.trigger_armed = FALSE ], 357)
       ELSE IF a.pc = 347
       THEN Field([ m EXCEPT !.pre_trigger_ch1 =
                        deque_append(@, s1, pre_trigger_buffer_size) ], 348)
       ELSE IF a.pc = 348
       THEN Field([ m EXCEPT !.pre_trigger_ch2 =
                        deque_append(@, s2, pre_trigger_buffer_size) ], 349)
       ELSE IF a.pc = 349
       THEN Field([ m EXCEPT !.pre_trigger_timestamps =
                        deque_append(@, st, pre_trigger_buffer_size) ],
                  357)
       ELSE IF a.pc = 352
       THEN Field([ m EXCEPT !.ch1_diff_buffer =
                        deque_append(@, s1, buffer_size) ], 353)
       ELSE IF a.pc = 353
       THEN Field([ m EXCEPT !.ch2_diff_buffer =
                        deque_append(@, s2, buffer_size) ], 354)
       ELSE IF a.pc = 354
       THEN Field([ m EXCEPT !.timestamp_buffer =
                        deque_append(@, st, buffer_size) ], 357)
       ELSE IF a.pc = 357
       THEN \* enabled and armed and not captured
            IF a.ld = 0
            THEN IF m.trigger_enabled THEN Loaded ELSE Done(<<>>)
            ELSE IF a.ld = 1
            THEN IF m.trigger_armed THEN Loaded ELSE Done(<<>>)
            ELSE IF ~m.trigger_captured THEN Goto(358) ELSE Done(<<>>)
       ELSE IF a.pc = 358
       THEN \* trigger_start_time and the time since it
            IF a.ld = 0
            THEN IF m.trigger_start_time # None THEN Loaded ELSE Done(<<>>)
            ELSE IF timed_out(m, a) THEN Goto(360) ELSE Done(<<>>)
       ELSE IF a.pc = 360
       THEN Field([ m EXCEPT !.trigger_armed = FALSE ], 362)
       ELSE \* the call of lines 361-365, and lines 367-370
            Done(<< [ type |-> "trigger_timeout",
                      trigger_channel |-> a.event_channel,
                      trigger_edge |-> a.event_edge,
                      timeout_duration |-> trigger_timeout ] >>)

(* the lines of the acquisition loop inside "with self.buffer_lock" *)
acq_locked(pc) == pc \in 237..243 \/ pc \in 308..363

(* the lines at which the acquisition loop hands an event to the socket *)
acq_emits(pc) == pc \in { 326, 361 }

(* The next step of the acquisition thread with the locals a, at the time  *)
(* t, lines 273-377: every way it can go, each with the manager and the    *)
(* locals afterwards, the events emitted and the sample read.  pinset are  *)
(* the levels the lines can show, id numbers the sample, room bounds the   *)
(* number of samples.  gpio_read raises on a chip that is None; faults     *)
(* lets gpio_read and socketio.emit raise.  An exception leaves the        *)
(* manager as the lines before left it and ends the loop at line 376.      *)
acquisition_loop(m, a, t, pinset, id, room, faults) ==
    LET Ends(m2, pc) ==
            [ m |-> m2,
              a |-> [ a EXCEPT !.alive = FALSE, !.pc = pc, !.ld = 0 ],
              ev |-> <<>>, sample |-> <<>> ]
        Line(pins) ==
            LET r == acquisition_line(m, a, t, pins, id)
            IN [ m |-> r.m, a |-> r.a, ev |-> r.ev,
                 sample |-> IF a.pc = 293
                            THEN << <<r.a.ch1_diff, r.a.ch2_diff,
                                      a.current_time>> >>
                            ELSE <<>> ]
    IN IF ~a.alive THEN {}
       ELSE IF a.pc = 273
       THEN \* 1.0 / 0 raises outside the try
            IF m.sampling_rate = 0 THEN { Ends(m, 273) }
            ELSE { Line(<<0, 0, 0, 0>>) }
       ELSE IF a.pc = 280 /\ a.ld = 0
       THEN IF ~m.acquiring THEN { Ends(m, 280) }
            ELSE IF room THEN { Line(<<0, 0, 0, 0>>) }
            ELSE {}
       ELSE IF a.pc = 280
       THEN IF m.stop_event THEN { Ends(m, 280) }
            ELSE { Line(<<0, 0, 0, 0>>) }
       ELSE IF a.pc = 293
       THEN (IF m.chip = NoChip THEN {}
             ELSE { Line(pins) : pins \in pinset })
            \cup (IF faults \/ m.chip = NoChip THEN { Ends(m, 376) }
                  ELSE {})
       ELSE IF a.pc = 306 /\ m.buffer_lock # Free
       THEN {}
       ELSE { Line(<<0, 0, 0, 0>>) }
            \cup (IF faults /\ acq_emits(a.pc)
                  THEN { Ends(with_exit(m), 376) } ELSE {})

(* the lines of the acquisition loop from a.pc on, at most n of them, up   *)
(* to the line last or to the end of the pass, with the events ev emitted  *)
(* so far                                                                  *)
RECURSIVE acq_run(_, _, _, _, _)
acq_run(m, a, ev, last, n) ==
    IF n = 0 \/ a.pc \in { last, 280 }
    THEN [ m |-> m, a |-> a, ev |-> ev ]
    ELSE LET x == acquisition_line(m, a, 0, <<0, 0, 0, 0>>, 0)
         IN acq_run(x.m, x.a, ev \o x.ev, last, n - 1)

(* the lines from where the locals a stand up to the line last or the end  *)
(* of the pass, with nothing in between                                    *)
acq_lines(m, a, last) == acq_run(m, a, <<>>, last, 50)

(* the locked region of one pass, lines 306-370, run with nothing in       *)
(* between on the sample the locals a hold                                 *)
acquisition_pass(m, a) ==
    LET r == acquisition_line(m, [ a EXCEPT !.pc = 306, !.ld = 0 ], 0,
                              <<0, 0, 0, 0>>, 0)
    IN acq_lines(r.m, r.a, 280)

(* --------------------------- _streaming_loop --------------------------- *)

(* the dispatcher without its automatic re-arm *)
rearm_due_never(m, s) == FALSE

(* line 491: the capture was shown and the delay since the last re-arm     *)
(* has passed                                                              *)
rearm_due(m, s) ==
    /\ m.trigger_displayed
    /\ s.current_time - s.last_rearm_time > RearmDelay

(* lines 517-524 and 541: where the window starts in a buffer of           *)
(* buffer_size samples                                                     *)
window_start(size, sample_count) ==
    LET max_samples == Max(Min(sample_count, size), MinWindow)
    IN Max(0, size - max_samples)

(* list(buffer)[start_idx:] *)
list_from(d, start_idx) == SubSeq(d, start_idx + 1, Len(d))

(* the copy of the timestamps taking the oldest sample out of the main     *)
(* buffers                                                                 *)
strm_copy_timestamps_consumes_oldest(m, s) ==
    [ m |-> [ m EXCEPT !.ch1_diff_buffer = Tail(@),
                       !.ch2_diff_buffer = Tail(@),
                       !.timestamp_buffer = Tail(@) ],
      s |-> [ s EXCEPT !.timestamps =
                  list_from(m.timestamp_buffer, s.start_idx) ] ]

(* lines 533 and 550: list(self.timestamp_buffer)[start_idx:]; the buffer  *)
(* is left as it is                                                        *)
strm_copy_timestamps(m, s) ==
    [ m |-> m,
      s |-> [ s EXCEPT !.timestamps =
                  list_from(m.timestamp_buffer, s.start_idx) ] ]

(* data_to_send, lines 525-536 and 542-553, from the values the lines      *)
(* have read                                                               *)
data_to_send(s) ==
    [ type |-> "logic_analyzer_data",
      timestamp |-> s.current_time,
      sampling_rate |-> s.sampling_rate,
      timebase |-> s.timebase,
      ch1_data |-> s.ch1_data,
      ch2_data |-> s.ch2_data,
      timestamps |-> s.timestamps,
      trigger_armed |-> s.trigger_armed,
      trigger_captured |-> s.trigger_captured ]

(* what a finished pass leaves of its locals: only last_rearm_time is read *)
(* by the next pass                                                        *)
strm_rest(s) ==
    [ thread_start(StrmLocals(s.ident)) EXCEPT
        !.last_rearm_time = s.last_rearm_time ]

(* The line s.pc of the streaming loop, run by a live thread at the time t *)
(* when socketio.emit does not raise: the manager and the locals           *)
(* afterwards and the events handed to socketio.emit.  Line 477 takes      *)
(* buffer_lock.  int() of line 516 raises on a window that is NaN: the     *)
(* "with" block is left and the loop ends at line 559.  The tests of lines *)
(* 466 and 521 load their fields one by one, left to right, a step for     *)
(* each load: the test stops at the first load that decides it.            *)
streaming_line(m, s, t) ==
    LET Goto(pc) ==
            [ m |-> m, s |-> [ s EXCEPT !.pc = pc, !.ld = 0 ], ev |-> <<>> ]
        Loaded == [ m |-> m, s |-> [ s EXCEPT !.ld = @ + 1 ], ev |-> <<>> ]
        Local(s2, pc) ==
            [ m |-> m, s |-> [ s2 EXCEPT !.pc = pc ], ev |-> <<>> ]
        Field(m2, pc) ==
            [ m |-> m2, s |-> [ s EXCEPT !.pc = pc ], ev |-> <<>> ]
        Continue(s2) ==
            [ m |-> with_exit(m), s |-> strm_rest(s2), ev |-> <<>> ]
        Ends(m2, pc) ==
            [ m |-> m2,
              s |-> [ s EXCEPT !.alive = FALSE, !.pc = pc, !.ld = 0 ],
              ev |-> <<>> ]
    IN IF s.pc = 466
       THEN \* self.acquiring and not self.stop_event.is_set()
            IF s.ld = 0
            THEN IF m.acquiring THEN Loaded ELSE Ends(m, 466)
            ELSE IF ~m.stop_event THEN Goto(468) ELSE Ends(m, 466)
       ELSE IF s.pc = 468
       THEN \* lines 468-471: the wait is over; the break
            IF ~m.acquiring THEN Ends(m, 466) ELSE Goto(473)
       ELSE IF s.pc = 473
       THEN Local([ s EXCEPT !.current_time = t ], 477)
       ELSE IF s.pc = 477
       THEN Field([ m EXCEPT !.buffer_lock = <<"strm", s.ident>> ], 478)
       ELSE IF s.pc = 478
       THEN Local([ s EXCEPT !.buffer_size = Len(m.ch1_diff_buffer) ], 481)
       ELSE IF s.pc = 481
       THEN \* lines 481 and 511
            IF m.trigger_enabled THEN Goto(482)
            ELSE IF s.buffer_size = 0 THEN Continue(s)
            ELSE Goto(515)
       ELSE IF s.pc = 482
       THEN IF ~m.trigger_captured THEN Continue(s) ELSE Goto(487)
       ELSE IF s.pc = 487
       THEN IF m.trigger_armed THEN Continue(s) ELSE Goto(491)
       ELSE IF s.pc = 491
       THEN \* lines 491 and 507
            IF rearm_due(m, s) THEN Goto(493)
            ELSE IF s.buffer_size = 0 THEN Continue(s)
            ELSE Goto(515)
       ELSE IF s.pc = 493
       THEN Field([ m EXCEPT !.trigger_displayed = FALSE ], 494)
       ELSE IF s.pc = 494
       THEN Field([ m EXCEPT !.trigger_captured = FALSE ], 495)
       ELSE IF s.pc = 495
       THEN Field([ m EXCEPT !.trigger_armed = TRUE ], 496)
       ELSE IF s.pc = 496
       THEN Field([ m EXCEPT !.trigger_start_time = t ], 497)
       ELSE IF s.pc = 497
       THEN Field([ m EXCEPT !.ch1_diff_buffer = <<>> ], 498)
       ELSE IF s.pc = 498
       THEN Field([ m EXCEPT !.ch2_diff_buffer = <<>> ], 499)
       ELSE IF s.pc = 499
       THEN Field([ m EXCEPT !.timestamp_buffer = <<>> ], 500)
       ELSE IF s.pc = 500
       THEN Field([ m EXCEPT !.pre_trigger_ch1 = <<>> ], 501)
       ELSE IF s.pc = 501
       THEN Field([ m EXCEPT !.pre_trigger_ch2 = <<>> ], 502)
       ELSE IF s.pc = 502
       THEN \* lines 502-504
            [ m |-> with_exit([ m EXCEPT !.pre_trigger_timestamps = <<>> ]),
              s |-> strm_rest([ s EXCEPT !.last_rearm_time =
                                             s.current_time ]),
              ev |-> <<>> ]
       ELSE IF s.pc = 515
       THEN Local([ s EXCEPT !.target_time_window = m.timebase ], 516)
       ELSE IF s.pc = 516
       THEN \* lines 516-518 and the start_idx of lines 524 and 541
            IF s.target_time_window = NaN THEN Ends(with_exit(m), 559)
            ELSE LET n == target_samples(s.target_time_window,
                                         m.sampling_rate)
                 IN Local([ s EXCEPT
                              !.target_samples = n,
                              !.start_idx = window_start(s.buffer_size, n) ],
                          521)
       ELSE IF s.pc = 521
       THEN \* enabled and captured and not armed
            IF s.ld = 0
            THEN IF m.trigger_enabled THEN Loaded ELSE Goto(544)
            ELSE IF s.ld = 1
            THEN IF m.trigger_captured THEN Loaded ELSE Goto(544)
            ELSE IF ~m.trigger_armed THEN Goto(527) ELSE Goto(544)
       ELSE IF s.pc \in { 527, 544 }
       THEN Local([ s EXCEPT !.sampling_rate = m.sampling_rate ], s.pc + 1)
       ELSE IF s.pc \in { 528, 545 }
       THEN Local([ s EXCEPT !.timebase = m.timebase ], s.pc + 3)
       ELSE IF s.pc \in { 531, 548 }
       THEN Local([ s EXCEPT !.ch1_data =
                        list_from(m.ch1_diff_buffer, s.start_idx) ],
                  s.pc + 1)
       ELSE IF s.pc \in { 532, 549 }
       THEN Local([ s EXCEPT !.ch2_data =
                        list_from(m.ch2_diff_buffer, s.start_idx) ],
                  s.pc + 1)
       ELSE IF s.pc = 533
       THEN LET r == strm_copy_timestamps(m, s)
            IN [ m |-> r.m, s |-> [ r.s EXCEPT !.pc = 534 ], ev |-> <<>> ]
       ELSE IF s.pc = 534
       THEN Local([ s EXCEPT !.trigger_armed = m.trigger_armed ], 535)
       ELSE IF s.pc = 535
       THEN Local([ s EXCEPT !.trigger_captured = m.trigger_captured ], 538)
       ELSE IF s.pc = 538
       THEN \* line 538 and the end of the "with" block
            Field(with_exit([ m EXCEPT !.trigger_displayed = TRUE ]), 556)
       ELSE IF s.pc = 550
       THEN \* lines 550-553 and the end of the "with" block
            LET r == strm_copy_timestamps(m, s)
            IN [ m |-> with_exit(r.m), s |-> [ r.s EXCEPT !.pc = 556 ],
                 ev |-> <<>> ]
       ELSE \* line 556
            [ m |-> m, s |-> strm_rest(s), ev |-> << data_to_send(s) >> ]

(* the lines of the streaming loop inside "with self.buffer_lock" *)
strm_locked(pc) == pc \in 478..550

(* The next step of the streaming thread with the locals s, at the time t, *)
(* lines 466-560: every way it can go, each with the manager and the       *)
(* locals afterwards and the events emitted.  faults lets socketio.emit    *)
(* raise: the exception ends the loop at line 559.                         *)
streaming_loop(m, s, t, faults) ==
    IF ~s.alive THEN {}
    ELSE IF s.pc = 477 /\ m.buffer_lock # Free THEN {}
    ELSE { streaming_line(m, s, t) }
         \cup (IF faults /\ s.pc = 556
               THEN { [ m |-> m,
                        s |-> [ s EXCEPT !.alive = FALSE, !.pc = 559,
                                         !.ld = 0 ],
                        ev |-> <<>> ] }
               ELSE {})

(* the lines of the streaming loop from s.pc on, at most n of them, up to  *)
(* the next loop condition or the end of the thread, with the events ev    *)
(* emitted so far, the clock reading t at line 473 and t2 at line 496      *)
RECURSIVE strm_run(_, _, _, _, _, _)
strm_run(m, s, ev, t, t2, n) ==
    IF n = 0 \/ (s.pc = 466 /\ s.ld = 0) \/ ~s.alive
    THEN [ m |-> m, s |-> s, ev |-> ev ]
    ELSE LET x == streaming_line(m, s, IF s.pc = 473 THEN t ELSE t2)
         IN strm_run(x.m, x.s, ev \o x.ev, t, t2, n - 1)

(* lines 466-556: one pass of the streaming loop with nothing in between,  *)
(* from the loop condition on, the clock reading t at line 473 and t2 at   *)
(* line 496                                                                *)
streaming_pass(m, s, t, t2) ==
    LET x == streaming_line(m, [ s EXCEPT !.pc = 466, !.ld = 0 ], t)
    IN strm_run(x.m, x.s, x.ev, t, t2, 40)
(* ---------------------------- control calls ---------------------------- *)

(* set_trigger_config, statement i of lines 211-228; statement 5 is the   *)
(* test of line 221, which writes nothing                                  *)
stc_stmt(m, c, i, t) ==
    IF i = 1 THEN [ m EXCEPT !.trigger_enabled = c.enabled ]
    ELSE IF i = 2
    THEN IF c.channel \in { "ch1", "ch2" }
         THEN [ m EXCEPT !.trigger_channel = c.channel ] ELSE m
    ELSE IF i = 3
    THEN IF c.edge \in { "rising", "falling" }
         THEN [ m EXCEPT !.trigger_edge = c.edge ] ELSE m
    ELSE IF i = 4
    THEN IF c.level \in { -1, 0, 1 }
         THEN [ m EXCEPT !.trigger_level = c.level ] ELSE m
    ELSE IF i = 5 THEN m
    ELSE IF i = 6 THEN [ m EXCEPT !.trigger_armed = TRUE ]
    ELSE IF i = 7 THEN [ m EXCEPT !.trigger_captured = FALSE ]
    ELSE IF i = 8 THEN [ m EXCEPT !.trigger_displayed = FALSE ]
    ELSE IF i = 9 THEN [ m EXCEPT !.trigger_start_time = t ]
    ELSE IF i = 10 THEN [ m EXCEPT !.pre_trigger_ch1 = <<>> ]
    ELSE IF i = 11 THEN [ m EXCEPT !.pre_trigger_ch2 = <<>> ]
    ELSE [ m EXCEPT !.pre_trigger_timestamps = <<>> ]

stc_test == 5
stc_last == 12

(* line 221: the call returns at the test when self.trigger_enabled, as    *)
(* the test finds it, is false                                             *)
stc_returns(m, c) ==
    \/ c.pc = stc_test /\ ~m.trigger_enabled
    \/ c.pc = stc_last

(* arm_trigger, statement i of lines 251-260 *)
arm_stmt(m, i, t) ==
    IF i = 1 THEN [ m EXCEPT !.trigger_armed = TRUE ]
    ELSE IF i = 2 THEN [ m EXCEPT !.trigger_captured = FALSE ]
    ELSE IF i = 3 THEN [ m EXCEPT !.trigger_displayed = FALSE ]
    ELSE IF i = 4 THEN [ m EXCEPT !.trigger_start_time = t ]
    ELSE IF i = 5 THEN [ m EXCEPT !.ch1_diff_buffer = <<>> ]
    ELSE IF i = 6 THEN [ m EXCEPT !.ch2_diff_buffer = <<>> ]
    ELSE IF i = 7 THEN [ m EXCEPT !.timestamp_buffer = <<>> ]
    ELSE IF i = 8 THEN [ m EXCEPT !.pre_trigger_ch1 = <<>> ]
    ELSE IF i = 9 THEN [ m EXCEPT !.pre_trigger_ch2 = <<>> ]
    ELSE [ m EXCEPT !.pre_trigger_timestamps = <<>> ]

arm_last == 10

(* disarm_trigger, statement i of lines 265-266 *)
disarm_stmt(m, i) ==
    IF i = 1 THEN [ m EXCEPT !.trigger_armed = FALSE ]
    ELSE [ m EXCEPT !.trigger_captured = FALSE ]

disarm_last == 2

(* the route disable_trigger of app.py, statement i of lines 1752-1761;    *)
(* statements 5 to 7 run inside "with buffer_lock"                         *)
disable_stmt(m, i) ==
    IF i = 1 THEN [ m EXCEPT !.trigger_enabled = FALSE ]
    ELSE IF i = 2 THEN [ m EXCEPT !.trigger_armed = FALSE ]
    ELSE IF i = 3 THEN [ m EXCEPT !.trigger_captured = FALSE ]
    ELSE IF i = 4 THEN [ m EXCEPT !.trigger_displayed = FALSE ]
    ELSE IF i = 5 THEN [ m EXCEPT !.ch1_diff_buffer = <<>> ]
    ELSE IF i = 6 THEN [ m EXCEPT !.ch2_diff_buffer = <<>> ]
    ELSE [ m EXCEPT !.timestamp_buffer = <<>> ]

disable_last == 7
disable_locked == 5

(* line 107: self.chip = None *)
chip_released(m) == [ m EXCEPT !.chip = NoChip ]

(* cleanup_gpio, the line pc of lines 105-107, when lgpio answers closes   *)
(* to gpiochip_close: the manager afterwards and the line that follows, 0  *)
(* when the function returns.  "if self.chip" is false for None and for    *)
(* the handle 0; gpiochip_close raises on None (TypeError) and when closes *)
(* is FALSE, and the except clause of line 108 leaves the chip as it is    *)
cleanup_gpio(m, pc, closes) ==
    IF pc = 105
    THEN [ m |-> m, pc |-> IF m.chip # NoChip /\ m.chip # 0 THEN 106 ELSE 0 ]
    ELSE IF pc = 106
    THEN [ m |-> m, pc |-> IF m.chip # NoChip /\ closes THEN 107 ELSE 0 ]
    ELSE [ m |-> chip_released(m), pc |-> 0 ]

(* str(e) of the TypeError that lgpio raises on a handle that is None *)
NoneHandle == "unsupported operand type(s) for &: 'NoneType' and 'int'"

(* str(e) of the RuntimeError of Thread.start() on a thread that was       *)
(* started, of the setter of Thread.daemon on such a thread, and of        *)
(* Thread.join() on a thread that was not started                          *)
StartedTwice == "threads can only be started once"
DaemonOfActive == "cannot set daemon status of active thread"
JoinedUnstarted == "cannot join thread before it is started"

(* initialize_gpio reporting success whatever lgpio answers *)
initialize_gpio_reports_success(m, pc, hw) ==
    IF pc = 90
    THEN [ m |-> [ m EXCEPT !.chip = hw.opened ], pc |-> 95, error |-> "" ]
    ELSE [ m |-> m, pc |-> 0, error |-> "" ]

(* initialize_gpio, the line pc of lines 85-97, when lgpio answers hw: the *)
(* manager afterwards, the line that follows, 0 when the function returns  *)
(* (True, ...), and str(e) of the exception that gpiochip_open or          *)
(* gpio_claim_input raises, caught at line 98.  Line 95 reads self.chip,   *)
(* which a cleanup_gpio of another thread may have set to None             *)
initialize_gpio(m, pc, hw) ==
    IF pc = 90
    THEN IF hw.opened = NoChip
         THEN [ m |-> m, pc |-> 99, error |-> hw.error ]
         ELSE [ m |-> [ m EXCEPT !.chip = hw.opened ], pc |-> 95,
                error |-> "" ]
    ELSE IF m.chip = NoChip
    THEN [ m |-> m, pc |-> 99, error |-> NoneHandle ]
    ELSE IF ~hw.claimed
    THEN [ m |-> m, pc |-> 99, error |-> hw.error ]
    ELSE [ m |-> m, pc |-> 0, error |-> "" ]

(* start_acquisition without the test of line 116 *)
start_refusal_unchecked(m) ==
    IF ~m.lgpio_available THEN "lgpio not available" ELSE ""

(* start_acquisition, lines 113-117: the message of the refusal, empty     *)
(* when the call goes on                                                   *)
start_refusal(m) ==
    IF ~m.lgpio_available THEN "lgpio not available"
    ELSE IF m.acquiring THEN "Already acquiring"
    ELSE ""

(* the calls that run stop_acquisition or start_acquisition *)
HardwareOps ==
    { "start_acquisition", "stop_acquisition", "clear_logic_analyzer" }

(* set_timebase, lines 188-196, on a float, in microseconds *)
set_timebase_to(m, timebase) ==
    [ m EXCEPT !.timebase =
        IF float_lt(timebase, timebase_min) THEN timebase_min
        ELSE IF float_gt(timebase, timebase_max) THEN timebase_max
        ELSE timebase ]

(* set_sampling_rate, lines 173-175, on a number of tenths of a hertz *)
set_sampling_rate_to(m, tenths) ==
    [ m EXCEPT !.sampling_rate = int_of(tenths) ]

(* statement i of the call c, a call of the trigger *)
call_stmt(m, c, i, t) ==
    IF c.op = "set_trigger_config" THEN stc_stmt(m, c, i, t)
    ELSE IF c.op = "arm_trigger" THEN arm_stmt(m, i, t)
    ELSE IF c.op = "disarm_trigger" THEN disarm_stmt(m, i)
    ELSE disable_stmt(m, i)

(* the statement c.pc, run on the manager m, is the last of the call c *)
call_last(m, c) ==
    IF c.op = "set_trigger_config" THEN stc_returns(m, c)
    ELSE IF c.op = "arm_trigger" THEN c.pc = arm_last
    ELSE IF c.op = "disarm_trigger" THEN c.pc = disarm_last
    ELSE c.pc = disable_last

(* the manager after the call c run from its first statement to its last   *)
(* with nothing in between                                                 *)
call_whole(m, c, t) ==
    LET run[i \in 0..stc_last] ==
            IF i = 0 THEN [ m |-> m, pc |-> 1 ]
            ELSE LET r == run[i - 1]
                     ci == [ c EXCEPT !.pc = r.pc ]
                 IN IF r.pc = 0 THEN r
                    ELSE [ m |-> call_stmt(r.m, ci, r.pc, t),
                           pc |-> IF call_last(r.m, ci) THEN 0
                                  ELSE r.pc + 1 ]
    IN run[stc_last].m

(* the request thread at the first statement of the call op *)
Call(c, op, enabled, channel, edge, level) ==
    [ c EXCEPT !.op = op, !.pc = 1, !.enabled = enabled,
               !.channel = channel, !.edge = edge, !.level = level ]

SimpleCall(c, op) == Call(c, op, FALSE, "ch1", "rising", 0)

(* the request thread after the call c: its name, its arguments and what   *)
(* it returned                                                             *)
Returned(c, ok, message) ==
    [ c EXCEPT !.op = "idle", !.pc = 0, !.since = 0, !.joined = 0,
               !.ret = 0, !.nested = FALSE, !.caught = "",
               !.calls = @ + 1, !.last = c.op,
               !.ok = ok, !.message = message ]

(* the first statement of the locked region of the call, 0 when it has     *)
(* none: line 1759 of the route disable_trigger, line 1646 of the route    *)
(* /logic/clear                                                            *)
call_locked(c) ==
    IF c.op = "disable_trigger" THEN disable_locked
    ELSE IF c.op = "clear_logic_analyzer" THEN 1646
    ELSE 0

(* the call c is inside Thread.join(timeout=1.0), lines 159 and 162 *)
joining(c) == c.op \in HardwareOps /\ c.pc \in { 159, 162 } /\ c.joined # 0

(* the line the call c is at can run: "with buffer_lock" waits for the     *)
(* lock; a join that has begun, lines 159 and 162, returns when the thread *)
(* it waits for has ended or when its timeout has passed since it began    *)
control_ready(m, c, t, acqs, strms) ==
    /\ c.op # "idle"
    /\ (call_locked(c) # 0 /\ c.pc = call_locked(c)) => m.buffer_lock = Free
    /\ (joining(c) /\ c.pc = 159)
         => (~acqs[c.joined].alive \/ t - c.since >= JoinTimeout)
    /\ (joining(c) /\ c.pc = 162)
         => (~strms[c.joined].alive \/ t - c.since >= JoinTimeout)

(* The line c.pc of a call of start_acquisition, of stop_acquisition or of *)
(* the route /logic/clear, run at the time t: the manager, the request     *)
(* thread and the threads afterwards, and the events emitted.              *)
(* start_acquisition is lines 113-146 with initialize_gpio, lines 85-100;  *)
(* an exception raised inside its try block is caught at line 147, and     *)
(* line 148 calls stop_acquisition, lines 154-169, before line 149 returns *)
(* the failure.  cleanup_gpio, lines 105-107, is called at lines 99 and    *)
(* 165.  The route calls stop_acquisition at its line 1642.                *)
hardware_line(m, c, t, acqs, strms) ==
    LET To(m2, c2, ev, acqs2, strms2) ==
            [ m |-> m2, c |-> c2, ev |-> ev, acq |-> acqs2, strm |-> strms2 ]
        Goto(pc) == To(m, [ c EXCEPT !.pc = pc ], <<>>, acqs, strms)
        Field(m2, pc) == To(m2, [ c EXCEPT !.pc = pc ], <<>>, acqs, strms)
        Return(m2, ok, message) ==
            To(m2, Returned(c, ok, message), <<>>, acqs, strms)
        \* line 147: the exception e is caught; line 148
        Raise(e) ==
            To(m, [ c EXCEPT !.pc = 154, !.nested = TRUE, !.caught = e ],
               <<>>, acqs, strms)
        \* stop_acquisition returns to line 149, to the route, to the caller
        StopReturns(m2, ok, message) ==
            IF c.nested
            THEN Return(m2, FALSE,
                        "Failed to start acquisition: " \o c.caught)
            ELSE IF c.op = "clear_logic_analyzer" THEN Field(m2, 1646)
            ELSE Return(m2, ok, message)
        \* cleanup_gpio returns to line 100, whose result line 123 returns,
        \* or to line 167
        CleanupReturns(m2) ==
            IF c.ret = 100
            THEN Return(m2, FALSE,
                        "GPIO initialization failed: " \o c.caught)
            ELSE StopReturns(m2, TRUE, "Logic analyzer acquisition stopped")
        \* lines 158-159 and 161-162 on the thread that the field refers to
        Join(ref, threads, next) ==
            IF c.pc \in { 158, 161 }
            THEN IF ref # 0 /\ threads[ref].alive THEN Goto(c.pc + 1)
                 ELSE Goto(next)
            ELSE IF c.joined # 0
            THEN To(m, [ c EXCEPT !.pc = next, !.joined = 0, !.since = 0 ],
                    <<>>, acqs, strms)
            ELSE IF ~threads[ref].started
            THEN \* lines 168-169
                 StopReturns(m, FALSE,
                             "Failed to stop acquisition: "
                                 \o JoinedUnstarted)
            ELSE To(m, [ c EXCEPT !.joined = ref, !.since = t ], <<>>,
                    acqs, strms)
    IN IF c.pc = 113
       THEN \* lines 113-121
            IF start_refusal(m) # ""
            THEN Return(m, FALSE, start_refusal(m))
            ELSE IF ~m.lgpio_available
            THEN \* line 86
                 Return(m, FALSE, "lgpio not available")
            ELSE Goto(90)
       ELSE IF c.pc \in { 90, 95 }
       THEN LET g == initialize_gpio(m, c.pc, c)
            IN IF g.pc = 99
               THEN \* lines 98-99
                    To(g.m, [ c EXCEPT !.pc = 105, !.ret = 100,
                                       !.caught = g.error ],
                       <<>>, acqs, strms)
               ELSE IF g.pc = 0
               THEN \* lines 97 and 122
                    Field(g.m, 126)
               ELSE Field(g.m, g.pc)
       ELSE IF c.pc \in 105..107
       THEN LET g == cleanup_gpio(m, c.pc, c.closes)
            IN IF g.pc = 0 THEN CleanupReturns(g.m) ELSE Field(g.m, g.pc)
       ELSE IF c.pc = 126
       THEN Field([ m EXCEPT !.ch1_diff_buffer = <<>> ], 127)
       ELSE IF c.pc = 127
       THEN Field([ m EXCEPT !.ch2_diff_buffer = <<>> ], 128)
       ELSE IF c.pc = 128
       THEN Field([ m EXCEPT !.timestamp_buffer = <<>> ], 129)
       ELSE IF c.pc = 129
       THEN Field([ m EXCEPT !.stop_event = FALSE ], 131)
       ELSE IF c.pc = 131
       THEN Field([ m EXCEPT !.acquiring = TRUE ], 134)
       ELSE IF c.pc = 134
       THEN IF c.fails = 134 THEN Raise(c.error)
            ELSE To(m, [ c EXCEPT !.pc = 137 ],
                    << [ type |-> "test_event" ] >>, acqs, strms)
       ELSE IF c.pc = 137
       THEN To([ m EXCEPT !.acquisition_thread = Len(acqs) + 1 ],
               [ c EXCEPT !.pc = 138 ], <<>>,
               Append(acqs, NewAcq(Len(acqs) + 1)), strms)
       ELSE IF c.pc = 138
       THEN IF acqs[m.acquisition_thread].started
            THEN Raise(DaemonOfActive) ELSE Goto(139)
       ELSE IF c.pc = 139
       THEN IF acqs[m.acquisition_thread].started
            THEN Raise(StartedTwice)
            ELSE To(m, [ c EXCEPT !.pc = 142 ], <<>>,
                    [ acqs EXCEPT ![m.acquisition_thread] =
                                      thread_start(@) ], strms)
       ELSE IF c.pc = 142
       THEN To([ m EXCEPT !.stream_thread = Len(strms) + 1 ],
               [ c EXCEPT !.pc = 143 ], <<>>,
               acqs, Append(strms, StrmLocals(Len(strms) + 1)))
       ELSE IF c.pc = 143
       THEN IF strms[m.stream_thread].started
            THEN Raise(DaemonOfActive) ELSE Goto(144)
       ELSE IF c.pc = 144
       THEN \* lines 144-146
            IF strms[m.stream_thread].started
            THEN Raise(StartedTwice)
            ELSE To(m, Returned(c, TRUE,
                                "Logic analyzer acquisition started"),
                    <<>>, acqs,
                    [ strms EXCEPT ![m.stream_thread] = thread_start(@) ])
       ELSE IF c.pc = 154
       THEN Field([ m EXCEPT !.acquiring = FALSE ], 155)
       ELSE IF c.pc = 155
       THEN Field([ m EXCEPT !.stop_event = TRUE ], 158)
       ELSE IF c.pc \in { 158, 159 }
       THEN Join(m.acquisition_thread, acqs, 161)
       ELSE IF c.pc \in { 161, 162 }
       THEN Join(m.stream_thread, strms, 165)
       ELSE IF c.pc = 165
       THEN To(m, [ c EXCEPT !.pc = 105, !.ret = 167 ], <<>>, acqs, strms)
       ELSE IF c.pc = 1646
       THEN \* lines 1645-1646
            Field([ m EXCEPT !.buffer_lock = <<"ctl", c.ident>>,
                             !.ch1_diff_buffer = <<>> ], 1647)
       ELSE IF c.pc = 1647
       THEN Field([ m EXCEPT !.ch2_diff_buffer = <<>> ], 1648)
       ELSE \* lines 1648-1650
            Return(with_exit([ m EXCEPT !.timestamp_buffer = <<>> ]),
                   TRUE, "")

(* The statement the call c is at, run at the time t: the manager, the     *)
(* request thread and the threads afterwards, and the events emitted.  In  *)
(* the route disable_trigger the statements from disable_locked on run     *)
(* inside "with buffer_lock"                                               *)
control(m, c, t, acqs, strms) ==
    IF c.op \in HardwareOps THEN hardware_line(m, c, t, acqs, strms)
    ELSE LET locked == call_locked(c) # 0 /\ c.pc >= call_locked(c)
             last == call_last(m, c)
             m2 == call_stmt(m, c, c.pc, t)
             m3 == [ m2 EXCEPT !.buffer_lock =
                         IF locked
                         THEN (IF last THEN Free ELSE <<"ctl", c.ident>>)
                         ELSE @ ]
         IN [ m |-> m3,
              c |-> IF last THEN Returned(c, TRUE, "")
                    ELSE [ c EXCEPT !.pc = c.pc + 1 ],
              ev |-> <<>>, acq |-> acqs, strm |-> strms ]

(* the call c run from the line it is at, at most n lines, to its return   *)
(* with nothing in between, no join waiting, with the events ev emitted so *)
(* far                                                                     *)
RECURSIVE control_run(_, _, _, _, _, _, _)
control_run(m, c, t, acqs, strms, ev, n) ==
    IF n = 0 \/ c.op = "idle"
    THEN [ m |-> m, c |-> c, ev |-> ev, acq |-> acqs, strm |-> strms ]
    ELSE LET r == control(m, c, t, acqs, strms)
         IN control_run(r.m, r.c, t, r.acq, r.strm, ev \o r.ev, n - 1)

(* the call c run from the line it is at to its return with nothing in     *)
(* between, no join waiting                                                *)
control_whole(m, c, t, acqs, strms) ==
    control_run(m, c, t, acqs, strms, <<>>, 20)


(* get_status, lines 562-580, without channel_mode and amplitude_scale,    *)
(* which the manager modelled here does not hold                           *)
get_status(m) ==
    [ acquiring |-> m.acquiring,
      lgpio_available |-> m.lgpio_available,
      sampling_rate |-> m.sampling_rate,
      timebase |-> m.timebase,
      buffer_size |-> Len(m.ch1_diff_buffer),
      trigger_enabled |-> m.trigger_enabled,
      trigger_armed |-> m.trigger_armed,
      trigger_captured |-> m.trigger_captured,
      trigger_displayed |-> m.trigger_displayed,
      trigger_channel |-> m.trigger_channel,
      trigger_edge |-> m.trigger_edge,
      trigger_level |-> m.trigger_level,
      pre_trigger_size |-> Len(m.pre_trigger_ch1) ]
(* ------------------------------- actions ------------------------------- *)

(* a step of the acquisition thread i, lines 273-377 *)
acquisition_thread_tick(i, pinset, maxSamples, faults) ==
    /\ i <= Len(acq)
    /\ \E r \in acquisition_loop(mgr, acq[i], now, pinset, Len(log) + 1,
                                 Len(log) < maxSamples, faults) :
         /\ mgr' = r.m
         /\ acq' = [ acq EXCEPT ![i] = r.a ]
         /\ emitted' = r.ev
         /\ log' = log \o r.sample
    /\ UNCHANGED <<strm, ctl, now>>

(* a step of one of the acquisition threads *)
acquisition_tick(pinset, maxSamples, faults) ==
    \E i \in 1..Len(acq) :
        acquisition_thread_tick(i, pinset, maxSamples, faults)

(* a step of the streaming thread i, lines 466-560 *)
streaming_thread_tick(i, faults) ==
    /\ i <= Len(strm)
    /\ \E r \in streaming_loop(mgr, strm[i], now, faults) :
         /\ mgr' = r.m
         /\ strm' = [ strm EXCEPT ![i] = r.s ]
         /\ emitted' = r.ev
    /\ UNCHANGED <<acq, ctl, now, log>>

(* a step of one of the streaming threads *)
streaming_tick(faults) ==
    \E i \in 1..Len(strm) : streaming_thread_tick(i, faults)

(* the calls that the request threads have made or are making *)
CallsMade(cs) ==
    LET sum[r \in 0..Cardinality(Requests)] ==
            IF r = 0 THEN 0
            ELSE sum[r - 1] + cs[r].calls
                     + (IF cs[r].op = "idle" THEN 0 ELSE 1)
    IN sum[Cardinality(Requests)]

(* the request thread that serves the next request: the first that is free *)
FreeRequests(cs) ==
    { r \in Requests : /\ cs[r].op = "idle"
                       /\ \A q \in Requests : q < r => cs[q].op # "idle" }

(* the request threads to which a request can arrive *)
free_calls(cs) == { cs[r] : r \in FreeRequests(cs) }

(* the request threads that can take a step of the call op: those inside   *)
(* it, and a free one to which a request arrives, one of fresh; Flask      *)
(* serves each request on a thread of its own, and the calls overlap       *)
calls_of(cs, op, fresh, maxCalls) ==
    { cs[r] : r \in { q \in Requests : cs[q].op = op } }
    \cup (IF CallsMade(cs) < maxCalls THEN fresh ELSE {})

(* the request thread of the call c runs the line the call is at *)
control_step(c) ==
    /\ control_ready(mgr, c, now, acq, strm)
    /\ LET r == control(mgr, c, now, acq, strm)
       IN /\ mgr' = r.m
          /\ ctl' = [ ctl EXCEPT ![c.ident] = r.c ]
          /\ emitted' = r.ev
          /\ acq' = r.acq
          /\ strm' = r.strm
    /\ UNCHANGED <<now, log>>

(* a statement of set_trigger_config, lines 211-230 *)
set_trigger_config(configs, maxCalls) ==
    LET Fresh == { Call(c, "set_trigger_config", a[1], a[2], a[3], a[4])
                   : c \in free_calls(ctl), a \in configs }
    IN \E c \in calls_of(ctl, "set_trigger_config", Fresh, maxCalls) :
           control_step(c)

(* a statement of arm_trigger, lines 251-261 *)
arm_trigger(maxCalls) ==
    LET Fresh == { SimpleCall(c, "arm_trigger") : c \in free_calls(ctl) }
    IN \E c \in calls_of(ctl, "arm_trigger", Fresh, maxCalls) :
           control_step(c)

(* a statement of disarm_trigger, lines 265-267 *)
disarm_trigger(maxCalls) ==
    LET Fresh == { SimpleCall(c, "disarm_trigger") : c \in free_calls(ctl) }
    IN \E c \in calls_of(ctl, "disarm_trigger", Fresh, maxCalls) :
           control_step(c)

(* a statement of the route disable_trigger of app.py, lines 1752-1761 *)
disable_trigger(maxCalls) ==
    LET Fresh == { SimpleCall(c, "disable_trigger") : c \in free_calls(ctl) }
    IN \E c \in calls_of(ctl, "disable_trigger", Fresh, maxCalls) :
           control_step(c)

(* the request thread at the first line of the call op, line 113 or line   *)
(* 154, hw being what lgpio and the socket answer during the call          *)
HardwareCall(c, op, hw) ==
    [ SimpleCall(c, op) EXCEPT !.pc = IF op = "start_acquisition"
                                      THEN 113 ELSE 154,
                               !.opened = hw.opened,
                               !.claimed = hw.claimed,
                               !.closes = hw.closes,
                               !.error = hw.error,
                               !.fails = hw.fails ]

(* a line of start_acquisition, lines 113-149; hw is what lgpio and the    *)
(* socket answer to this call                                              *)
start_acquisition(outcomes, maxCalls) ==
    LET Fresh == { HardwareCall(c, "start_acquisition", hw)
                   : c \in free_calls(ctl), hw \in outcomes }
    IN \E c \in calls_of(ctl, "start_acquisition", Fresh, maxCalls) :
           control_step(c)

(* a line of stop_acquisition, lines 154-169; hw tells whether             *)
(* gpiochip_close goes through                                             *)
stop_acquisition(outcomes, maxCalls) ==
    LET Fresh == { HardwareCall(c, "stop_acquisition", hw)
                   : c \in free_calls(ctl), hw \in outcomes }
    IN \E c \in calls_of(ctl, "stop_acquisition", Fresh, maxCalls) :
           control_step(c)

(* a line of the route clear_logic_analyzer of app.py, lines 1642-1648 *)
clear_logic_analyzer(outcomes, maxCalls) ==
    LET Fresh == { HardwareCall(c, "clear_logic_analyzer", hw)
                   : c \in free_calls(ctl), hw \in outcomes }
    IN \E c \in calls_of(ctl, "clear_logic_analyzer", Fresh, maxCalls) :
           control_step(c)

(* set_timebase, lines 188-196: the one write of the call *)
set_timebase(timebases) ==
    /\ \E timebase \in timebases : mgr' = set_timebase_to(mgr, timebase)
    /\ emitted' = <<>>
    /\ UNCHANGED <<acq, strm, ctl, now, log>>

(* set_sampling_rate, lines 173-175: the one write of the call *)
set_sampling_rate(rates) ==
    /\ \E rate \in rates : mgr' = set_sampling_rate_to(mgr, rate)
    /\ emitted' = <<>>
    /\ UNCHANGED <<acq, strm, ctl, now, log>>

(* time passes: by one sampling interval, or by more than the timeout *)
advance_clock(maxElapsed) ==
    /\ \E d \in { 1, trigger_timeout + 1 } :
         /\ now + d <= Epoch + maxElapsed
         /\ now' = now + d
    /\ emitted' = <<>>
    /\ UNCHANGED <<mgr, acq, strm, ctl, log>>

(* the call that the request thread r is in goes on to its next line *)
request_continues(r) ==
    /\ ctl[r].op # "idle"
    /\ control_step(ctl[r])

(* ------- the first calls made on a new manager, by two request -------- *)
(* ------- threads: sessions started, stopped and cleared, the trigger --- *)
(* ------- configured, armed, disarmed and disabled ---------------------- *)

MaxSamples == 1
MaxElapsed == 1
MaxCalls == 2

Next ==
    \/ start_acquisition(GpioWorks, MaxCalls)
    \/ stop_acquisition(GpioWorks, MaxCalls)
    \/ clear_logic_analyzer(GpioWorks, MaxCalls)
    \/ acquisition_tick(PinReads, MaxSamples, FALSE)
    \/ streaming_tick(FALSE)
    \/ set_trigger_config(TriggerConfigs, MaxCalls)
    \/ arm_trigger(MaxCalls)
    \/ disarm_trigger(MaxCalls)
    \/ disable_trigger(MaxCalls)
    \/ advance_clock(MaxElapsed)

Spec == Init /\ [][Next]_vars

(* start_acquisition has returned at Epoch on the manager m, a new manager *)
(* after some calls that configure it: the two threads are started and     *)
(* neither has taken a step, the acquisition thread is about to run line   *)
(* 273.  The calls are counted from here on                                *)
Started(m) ==
    \E before \in { m } :
    \E hw \in GpioWorks :
    \E r \in { control_whole(before, HardwareCall(NoCall(1),
                                                  "start_acquisition", hw),
                             Epoch, <<>>, <<>>) } :
        /\ mgr = r.m
        /\ acq = r.acq
        /\ strm = r.strm
        /\ ctl = NoCalls
        /\ now = Epoch
        /\ emitted = <<>>
        /\ log = <<>>

(* set_trigger_config(enabled, channel, edge, level) on the new manager *)
Configured(enabled, channel, edge, level) ==
    call_whole(NewManager,
               Call(NoCall(1), "set_trigger_config", enabled, channel, edge,
                    level), Epoch)

(* the arguments (channel, edge, level) of the call that enables the       *)
(* trigger before the long trigger runs                                    *)
TriggerConfigsTrig == { <<"ch1", "rising", 0>>, <<"ch1", "rising", 1>>,
                        <<"ch2", "falling", 0>> }

(* set_trigger_config(True, ...) on the new manager, then                  *)
(* start_acquisition                                                       *)
InitTrig ==
    \E a \in TriggerConfigsTrig : Started(Configured(TRUE, a[1], a[2], a[3]))

(* set_trigger_config(enabled, 'ch1', 'rising', 0) on the new manager,     *)
(* then start_acquisition: a session in continuous mode or armed           *)
InitWin ==
    \E enabled \in BOOLEAN : Started(Configured(enabled, "ch1", "rising", 0))

(* set_trigger_config(True, 'ch1', 'rising', 0) on the new manager, then   *)
(* start_acquisition                                                       *)
InitRace == Started(Configured(TRUE, "ch1", "rising", 0))

(* set_sampling_rate, then start_acquisition with the trigger disabled *)
InitRate ==
    \E rate \in SamplingRates : Started(set_sampling_rate_to(NewManager, rate))

(* start_acquisition on the new manager *)
InitTimeout == Started(NewManager)

(* ------- a running session, continuous or armed, and a call of any ----- *)
(* ------- kind made on it while the loops run --------------------------- *)

MaxSamplesSession == 2
MaxElapsedSession == 2
MaxCallsSession == 1

NextSession ==
    \/ start_acquisition(GpioWorks, MaxCallsSession)
    \/ stop_acquisition(GpioWorks, MaxCallsSession)
    \/ clear_logic_analyzer(GpioWorks, MaxCallsSession)
    \/ acquisition_tick(PinReads, MaxSamplesSession, FALSE)
    \/ streaming_tick(FALSE)
    \/ set_trigger_config(TriggerConfigs, MaxCallsSession)
    \/ arm_trigger(MaxCallsSession)
    \/ disarm_trigger(MaxCallsSession)
    \/ disable_trigger(MaxCallsSession)
    \/ advance_clock(MaxElapsedSession)

SpecSession == InitWin /\ [][NextSession]_vars

(* ------- long runs of one session whose trigger was enabled first ------ *)

MaxSamplesTrig == 5
MaxElapsedTrig == 5

NextTrig ==
    \/ acquisition_tick(PinReadsTrig, MaxSamplesTrig, FALSE)
    \/ streaming_tick(FALSE)
    \/ advance_clock(MaxElapsedTrig)

SpecTrig == InitTrig /\ [][NextTrig]_vars

(* ---- long runs of one session, continuous or armed once, in which ----- *)
(* ---- the timebase and the sampling rate change: more samples than ----- *)
(* ---- the main buffers hold -------------------------------------------- *)

MaxSamplesWin == 3
MaxElapsedWin == 3

(* the sweeps of these sessions *)
PinReadsWin == { <<0, 0, 0, 0>>, <<1, 0, 0, 1>> }

NextWin ==
    \/ acquisition_tick(PinReadsWin, MaxSamplesWin, FALSE)
    \/ streaming_tick(FALSE)
    \/ set_timebase(TimebasesWin)
    \/ set_sampling_rate(SamplingRatesWin)
    \/ advance_clock(MaxElapsedWin)

SpecWin == InitWin /\ [][NextWin]_vars

(* ------- sessions started, stopped and cleared by two request --------- *)
(* ------- threads, the trigger configured with valid and invalid -------- *)
(* ------- arguments ----------------------------------------------------- *)

MaxSamplesLife == 1
MaxElapsedLife == 1
MaxCallsLife == 2

NextLife ==
    \/ start_acquisition(GpioWorks, MaxCallsLife)
    \/ stop_acquisition(GpioWorks, MaxCallsLife)
    \/ clear_logic_analyzer(GpioWorks, MaxCallsLife)
    \/ set_trigger_config(TriggerConfigsLife, MaxCallsLife)
    \/ acquisition_tick(PinReads, MaxSamplesLife, FALSE)
    \/ streaming_tick(FALSE)
    \/ advance_clock(MaxElapsedLife)

SpecLife == Init /\ [][NextLife]_vars

(* the sweep of lines that are all low *)
PinReadsLow == { <<0, 0, 0, 0>> }

(* ---- a session in continuous mode that is stopped and started again --- *)
(* ---- and in which gpio_read can raise, short enough to follow every --- *)
(* ---- behaviour to its end; each thread is scheduled again and again --- *)
(* ---- while it has a step to take -------------------------------------- *)

MaxSamplesStop == 1
MaxElapsedStop == 1
MaxCallsStop == 2

NextStop ==
    \/ start_acquisition(GpioWorks, MaxCallsStop)
    \/ stop_acquisition(GpioWorks, MaxCallsStop)
    \/ acquisition_tick(PinReadsLow, MaxSamplesStop, TRUE)
    \/ streaming_tick(FALSE)
    \/ advance_clock(MaxElapsedStop)

SpecStop == InitTimeout /\ [][NextStop]_vars

SpecStopFair ==
    /\ SpecStop
    /\ \A i \in 1..MaxCallsStop :
         /\ WF_vars(acquisition_thread_tick(i, PinReadsLow, MaxSamplesStop,
                                            TRUE))
         /\ WF_vars(streaming_thread_tick(i, FALSE))
    /\ \A r \in Requests : WF_vars(request_continues(r))

(* ------- a session whose trigger was enabled first, stopped and -------- *)
(* ------- started again ------------------------------------------------- *)

MaxSamplesRestart == 1
MaxElapsedRestart == 1
MaxCallsRestart == 2

NextRestart ==
    \/ start_acquisition(GpioWorks, MaxCallsRestart)
    \/ stop_acquisition(GpioWorks, MaxCallsRestart)
    \/ acquisition_tick(PinReadsLow, MaxSamplesRestart, FALSE)
    \/ streaming_tick(FALSE)
    \/ advance_clock(MaxElapsedRestart)

SpecRestart == InitRace /\ [][NextRestart]_vars

(* ------- a session that is stopped and started again on a machine ------ *)
(* ------- where lgpio refuses the chip or a line, or where the socket --- *)
(* ------- refuses the event --------------------------------------------- *)

MaxSamplesHw == 1
MaxElapsedHw == 1
MaxCallsHw == 2

(* what lgpio and the socket answer to a start_acquisition of these        *)
(* sessions: every refusal of the chip or of a line; where the lines are   *)
(* claimed, the handle is 1 and gpiochip_close goes through                *)
GpioAnswers ==
    { hw \in GpioOutcomes : hw.claimed => (hw.opened = 1 /\ hw.closes) }

NextHw ==
    \/ start_acquisition(GpioAnswers, MaxCallsHw)
    \/ stop_acquisition(GpioWorks, MaxCallsHw)
    \/ acquisition_tick(PinReadsLow, MaxSamplesHw, FALSE)
    \/ streaming_tick(FALSE)
    \/ advance_clock(MaxElapsedHw)

SpecHw == InitTimeout /\ [][NextHw]_vars

(* ------- the first clock units of a session, its trigger enabled ------- *)
(* ------- first, in which the trigger is armed by a request while the --- *)
(* ------- acquisition loop runs; the streaming loop is in its wait of --- *)
(* ------- line 468 (stream_interval, 500 clock units) all along --------- *)

MaxSamplesRace == 4
MaxElapsedRace == 4
MaxCallsRace == 1

(* the sweeps of these sessions: channel 1 low, channel 1 high *)
PinReadsRace == { <<0, 0, 0, 0>>, <<1, 0, 0, 0>> }

NextRace ==
    \/ acquisition_tick(PinReadsRace, MaxSamplesRace, FALSE)
    \/ arm_trigger(MaxCallsRace)
    \/ advance_clock(MaxElapsedRace)

SpecRace == InitRace /\ [][NextRace]_vars

(* ------- one session, continuous or armed once, in which the four ------ *)
(* ------- lines take every combination of levels ------------------------ *)

MaxSamplesPins == 2
MaxElapsedPins == 2

NextPins ==
    \/ acquisition_tick(AllPinReads, MaxSamplesPins, FALSE)
    \/ streaming_tick(FALSE)
    \/ advance_clock(MaxElapsedPins)

SpecPins == InitWin /\ [][NextPins]_vars

(* ------- one session whose trigger was enabled first and that no ------- *)
(* ------- control call touches: the loops run again and again, time ----- *)
(* ------- passes -------------------------------------------------------- *)

MaxSamplesRearm == 4
MaxElapsedRearm == 5

NextRearm ==
    \/ acquisition_tick(PinReads, MaxSamplesRearm, FALSE)
    \/ streaming_tick(FALSE)
    \/ advance_clock(MaxElapsedRearm)

SpecRearm == InitRace /\ [][NextRearm]_vars

(* each loop is scheduled again and again; the clock goes on *)
SpecRearmFair ==
    /\ SpecRearm
    /\ WF_vars(acquisition_tick(PinReads, MaxSamplesRearm, FALSE))
    /\ WF_vars(streaming_tick(FALSE))
    /\ WF_vars(advance_clock(MaxElapsedRearm))

(* ------- a session and the calls made on it, in which a statement ------ *)
(* ------- inside "with buffer_lock" can raise, in either loop: the ------ *)
(* ------- reads of the lines, the emits of the trigger events, the ------ *)
(* ------- sizing of the window ------------------------------------------ *)

MaxSamplesLock == 1
MaxElapsedLock == 1
MaxCallsLock == 1

(* the timebases set in these sessions: 35 microseconds, and the NaN on   *)
(* which int() of line 516 raises                                          *)
TimebasesLock == { 35, NaN }

NextLock ==
    \/ start_acquisition(GpioWorks, MaxCallsLock)
    \/ stop_acquisition(GpioWorks, MaxCallsLock)
    \/ clear_logic_analyzer(GpioWorks, MaxCallsLock)
    \/ set_trigger_config(TriggerOn, MaxCallsLock)
    \/ disable_trigger(MaxCallsLock)
    \/ set_timebase(TimebasesLock)
    \/ acquisition_tick(PinReads, MaxSamplesLock, TRUE)
    \/ streaming_tick(TRUE)
    \/ advance_clock(MaxElapsedLock)

SpecLock == InitWin /\ [][NextLock]_vars

(* a thread that can take a step is scheduled *)
SpecLockFair ==
    /\ SpecLock
    /\ \A i \in 1..MaxCallsLock :
         /\ WF_vars(acquisition_thread_tick(i, PinReads, MaxSamplesLock, TRUE))
         /\ WF_vars(streaming_thread_tick(i, TRUE))
    /\ \A r \in Requests : WF_vars(request_continues(r))

(* ------ a session that runs in continuous mode or armed, in which ------ *)
(* ------ the trigger is configured again -------------------------------- *)

MaxSamplesEnable == 3
MaxElapsedEnable == 2
MaxCallsEnable == 1

NextEnable ==
    \/ acquisition_tick(PinReads, MaxSamplesEnable, FALSE)
    \/ streaming_tick(FALSE)
    \/ set_trigger_config(TriggerOn, MaxCallsEnable)
    \/ advance_clock(MaxElapsedEnable)

SpecEnable == InitWin /\ [][NextEnable]_vars

(* ------ a session in continuous mode in which the sampling rate is ----- *)
(* ------ set again while the loops run ---------------------------------- *)

MaxSamplesRate == 3
MaxElapsedRate == 5

NextRate ==
    \/ acquisition_tick(PinReads, MaxSamplesRate, FALSE)
    \/ streaming_tick(FALSE)
    \/ set_sampling_rate(SamplingRates)
    \/ advance_clock(MaxElapsedRate)

SpecRate == InitRate /\ [][NextRate]_vars

(* ------ a session in continuous mode at each of the sampling rates, ---- *)
(* ------ long enough for two samples at the slowest of them ------------- *)

MaxSamplesPace == 2
MaxElapsedPace == 9

NextPace ==
    \/ acquisition_tick(PinReadsLow, MaxSamplesPace, FALSE)
    \/ streaming_tick(FALSE)
    \/ advance_clock(MaxElapsedPace)

SpecPace == InitRate /\ [][NextPace]_vars

(* ------ two request threads that call start_acquisition and ------------ *)
(* ------ stop_acquisition at the same time, and every loop they start --- *)

MaxCallsThreads == 2
MaxSamplesThreads == 1
MaxElapsedThreads == 1

NextThreads ==
    \/ start_acquisition(GpioWorks, MaxCallsThreads)
    \/ stop_acquisition(GpioWorks, MaxCallsThreads)
    \/ acquisition_tick(PinReadsLow, MaxSamplesThreads, FALSE)
    \/ streaming_tick(FALSE)
    \/ advance_clock(MaxElapsedThreads)

SpecThreads == Init /\ [][NextThreads]_vars

(* ------ a session in continuous mode on lines that stay low, in -------- *)
(* ------ which the trigger is enabled and then waits for its edge ------- *)

MaxSamplesTimeout == 2
MaxElapsedTimeout == 5
MaxCallsTimeout == 1

NextTimeout ==
    \/ acquisition_tick(PinReadsLow, MaxSamplesTimeout, FALSE)
    \/ streaming_tick(FALSE)
    \/ set_trigger_config(TriggerOn, MaxCallsTimeout)
    \/ advance_clock(MaxElapsedTimeout)

SpecTimeout == InitTimeout /\ [][NextTimeout]_vars

(* ------ long runs of one session, continuous or armed once, that no ---- *)
(* ------ call touches: more samples than the main buffers hold ---------- *)

MaxSamplesRing == 5
MaxElapsedRing == 5

NextRing ==
    \/ acquisition_tick(PinReadsWin, MaxSamplesRing, FALSE)
    \/ streaming_tick(FALSE)
    \/ advance_clock(MaxElapsedRing)

SpecRing == InitWin /\ [][NextRing]_vars

(* --------------------------- trigger states ---------------------------- *)

(* the four states of the trigger engine, read off the flags the two loops *)
(* test (lines 308, 333-335, 481-487)                                      *)
Armed(m) == m.trigger_enabled /\ m.trigger_armed /\ ~m.trigger_captured
Captured(m) == m.trigger_enabled /\ m.trigger_captured /\ m.trigger_armed
Displayed(m) == m.trigger_enabled /\ m.trigger_captured /\ ~m.trigger_armed
Disarmed(m) == ~Armed(m) /\ ~Captured(m) /\ ~Displayed(m)

MainBuffers(m) == <<m.ch1_diff_buffer, m.ch2_diff_buffer, m.timestamp_buffer>>
StagingBuffers(m) ==
    <<m.pre_trigger_ch1, m.pre_trigger_ch2, m.pre_trigger_timestamps>>

(* ------------------------------- claims -------------------------------- *)

(* the step reads the lines: a sample is taken *)
SampleTaken == Len(log') = Len(log) + 1

(* the step is taken by an acquisition thread, by a dispatcher, by a       *)
(* request thread; a request thread that makes or starts a thread takes a  *)
(* step of its own                                                         *)
AcqStep == acq' # acq /\ ctl' = ctl
StrmStep == strm' # strm /\ ctl' = ctl
CtlStep == ctl' # ctl

(* the step is taken by the acquisition thread i, by the dispatcher j, by  *)
(* the request thread r                                                    *)
AcqStepOf(i) == AcqStep /\ acq'[i] # acq[i]
StrmStepOf(j) == StrmStep /\ strm'[j] # strm[j]
CtlStepOf(r) == ctl'[r] # ctl[r]

(* the step is the line pc of the acquisition loop i, of the streaming     *)
(* loop j; of some acquisition loop, of some streaming loop                *)
AcqLineOf(i, pc) == AcqStepOf(i) /\ acq[i].alive /\ acq[i].pc = pc
StrmLineOf(j, pc) == StrmStepOf(j) /\ strm[j].alive /\ strm[j].pc = pc
AcqLine(pc) == \E i \in DOMAIN acq : AcqLineOf(i, pc)
StrmLine(pc) == \E j \in DOMAIN strm : StrmLineOf(j, pc)

(* the trigger fires on this step: line 314 *)
FiresOf(i) == AcqLineOf(i, 314)
Fires == AcqLine(314)

(* the acquisition loop i is about to run the lines 314-330 of a firing *)
AboutToFire(i) == acq[i].alive /\ acq[i].pc = 314

(* the sample the pass under way of the acquisition loop i has read, as    *)
(* the three buffers hold it                                               *)
CurrentSample(i) ==
    << <<acq[i].tick, acq[i].ch1_diff>>, <<acq[i].tick, acq[i].ch2_diff>>,
       <<acq[i].tick, acq[i].current_time>> >>

(* the lines of a pass before the firing of line 314 has run; the lines   *)
(* before the sample is in the buffers it is routed to and is counted;     *)
(* the lines at which one of the three buffers has what the others have    *)
(* not yet                                                                 *)
BeforeTest(pc) == pc \in 237..243 \/ pc \in 306..314
BeforeRouting(pc) ==
    pc \in 237..243 \/ pc \in 306..339 \/ pc \in 347..354
MidRouting(pc) == pc \in { 322, 323, 338, 339, 348, 349, 353, 354 }

(* In a session that start_acquisition began and that no call of          *)
(* start_acquisition follows, acq[1] is the acquisition loop and strm[1]   *)
(* the dispatcher.  The samples of the log of such a session that went     *)
(* through the edge test, and those that were routed to a buffer           *)
Tested == IF BeforeTest(acq[1].pc) THEN Len(log) - 1 ELSE Len(log)
Routed == IF BeforeRouting(acq[1].pc) THEN Len(log) - 1 ELSE Len(log)

IsLast(d, e) == Len(d) > 0 /\ d[Len(d)] = e

Emits(ev, type) == \E i \in 1..Len(ev) : ev[i].type = type

(* no loop is inside its locked region and no control call is under way *)
Quiescent ==
    /\ mgr.buffer_lock = Free
    /\ \A i \in DOMAIN acq : ~acq_locked(acq[i].pc)
    /\ \A j \in DOMAIN strm : ~strm_locked(strm[j].pc)
    /\ \A r \in Requests : ctl[r].op = "idle"

(* C1: whenever the buffers can be observed, with no loop inside the       *)
(* locked region and no control call half done, the three main buffers     *)
(* have the same length.                                                   *)
C1_MainBuffersSameLength ==
    Quiescent
    => /\ Len(mgr.ch1_diff_buffer) = Len(mgr.ch2_diff_buffer)
       /\ Len(mgr.ch2_diff_buffer) = Len(mgr.timestamp_buffer)

(* a window whose three lists agree in length and, position by position,   *)
(* in the sample they come from                                            *)
WindowAligned(w) ==
    /\ Len(w.ch1_data) = Len(w.ch2_data)
    /\ Len(w.ch2_data) = Len(w.timestamps)
    /\ \A i \in 1..Len(w.ch1_data) :
         /\ w.ch1_data[i][1] = w.ch2_data[i][1]
         /\ w.ch2_data[i][1] = w.timestamps[i][1]

(* C2: every window handed to the sink is aligned: equal lengths, and      *)
(* position i of the three lists is one and the same sample.               *)
C2_NoTornWindow ==
    \A i \in 1..Len(emitted) :
        emitted[i].type = "logic_analyzer_data" => WindowAligned(emitted[i])

(* C3: no line that the acquisition loop runs while the trigger is armed   *)
(* changes a main buffer, and the routing of a sample that ends while the  *)
(* trigger is armed has put the sample at the end of each of the three     *)
(* staging buffers.                                                        *)
C3_ArmedTickStagesOnly ==
    /\ [][ (AcqStep /\ Armed(mgr))
           => MainBuffers(mgr') = MainBuffers(mgr) ]_vars
    /\ [][ \A i \in DOMAIN acq :
             (AcqLineOf(i, 349) /\ Armed(mgr))
             => \A k \in 1..3 :
                  IsLast(StagingBuffers(mgr')[k], CurrentSample(i)[k]) ]_vars

(* C4: the lines 314-330 of a pass on which the trigger fires move the     *)
(* staged samples: afterwards they are in the main buffers, in order,      *)
(* behind what the main buffers held, and the staging buffers are empty.   *)
C4_FiringMovesStaging ==
    \A i \in DOMAIN acq :
        AboutToFire(i)
        => LET r == acq_lines(mgr, acq[i], 333)
           IN \A k \in 1..3 :
                /\ MainBuffers(r.m)[k] =
                       Suffix(MainBuffers(mgr)[k] \o StagingBuffers(mgr)[k],
                              buffer_size)
                /\ StagingBuffers(r.m)[k] = <<>>

(* C10: no step taken while the trigger is armed or the post-trigger fill *)
(* is running hands a display window to the sink.                          *)
C10_NoWindowWhileArmedOrCaptured ==
    [][ (Armed(mgr) \/ Captured(mgr))
        => ~Emits(emitted', "logic_analyzer_data") ]_vars

(* the lines 493-502 of the dispatcher's automatic re-arm *)
Rearming(pc) == pc \in 493..502

TouchesSharedState ==
    \/ MainBuffers(mgr') # MainBuffers(mgr)
    \/ StagingBuffers(mgr') # StagingBuffers(mgr)
    \/ mgr'.trigger_armed # mgr.trigger_armed
    \/ mgr'.trigger_captured # mgr.trigger_captured
    \/ mgr'.trigger_displayed # mgr.trigger_displayed

(* the thread that takes the step holds buffer_lock while it takes it: the *)
(* acquisition loop inside its locked region or entering it, the           *)
(* dispatcher likewise, a control call inside "with buffer_lock"           *)
HeldBy(kind, ident) ==
    mgr.buffer_lock = <<kind, ident>> \/ mgr'.buffer_lock = <<kind, ident>>

StepHoldsLock ==
    \/ \E i \in DOMAIN acq : AcqStepOf(i) /\ HeldBy("acq", i)
    \/ \E j \in DOMAIN strm : StrmStepOf(j) /\ HeldBy("strm", j)
    \/ \E r \in Requests : CtlStepOf(r) /\ HeldBy("ctl", r)

(* C14: every step that appends to a buffer, clears one, or changes the    *)
(* armed, captured or displayed flag is taken by a thread that holds       *)
(* buffer_lock, the control calls included.                                *)
C14_SharedStateUnderLock == [][ TouchesSharedState => StepHoldsLock ]_vars

(* the step finishes the call name, in the request thread r, in some      *)
(* request thread                                                          *)
ReturnsIn(r, name) ==
    ctl'[r].calls = ctl[r].calls + 1 /\ ctl'[r].last = name
Returns(name) == \E r \in Requests : ReturnsIn(r, name)

(* the step is the first line of the call name in the request thread r *)
BeginsIn(r, name) ==
    /\ ctl[r].op = "idle" /\ CtlStepOf(r)
    /\ (ctl'[r].op = name \/ ReturnsIn(r, name))

(* whatever the lines read, an acquisition pass on m that starts with the  *)
(* locals a either fires the trigger or puts its sample in the staging     *)
(* buffers and nowhere else                                                *)
WatchesForEdge(m, a) ==
    \A pins \in PinReads :
        LET a2 == acq_read([ a EXCEPT !.current_time = now ], pins,
                           Len(log) + 1)
            r == acquisition_pass(m, a2)
        IN \/ Emits(r.ev, "trigger_captured")
           \/ /\ IsLast(r.m.pre_trigger_ch1, <<a2.tick, a2.ch1_diff>>)
              /\ MainBuffers(r.m) = MainBuffers(m)

(* C24: after arm_trigger, called in any state, the trigger is ARMED: the  *)
(* staging buffers are empty, trigger_start_time is a time of the call,    *)
(* and a sample taken next is staged or fires the trigger.                 *)
C24_ArmForcesArmed ==
    [][ \A i \in DOMAIN acq :
          (Returns("arm_trigger") /\ acq[i].pc = 280)
          => /\ \A k \in 1..3 : StagingBuffers(mgr')[k] = <<>>
             /\ mgr'.trigger_start_time # None
             /\ mgr'.trigger_start_time <= now
             /\ Armed(mgr')
             /\ WatchesForEdge(mgr', acq'[i]) ]_vars

(* C31: no event is handed to socketio.emit by a loop that holds           *)
(* buffer_lock: when a step emits, the loop that emits holds the lock      *)
(* neither before nor after the step.                                      *)
C31_NoEmitUnderLock ==
    [][ /\ \A i \in DOMAIN acq :
             (AcqStepOf(i) /\ emitted' # <<>>) => ~HeldBy("acq", i)
        /\ \A j \in DOMAIN strm :
             (StrmStepOf(j) /\ emitted' # <<>>) => ~HeldBy("strm", j) ]_vars

(* C5: once the post-trigger quota is reached (the capture is complete)    *)
(* no line of the acquisition loop appends to a main buffer.               *)
C5_CompleteCaptureFrozen ==
    [][ (AcqStep /\ Displayed(mgr))
        => MainBuffers(mgr') = MainBuffers(mgr) ]_vars

(* the value the trigger channel had in sample i of the log *)
TriggerChannelValue(m, i) ==
    IF m.trigger_channel = "ch1" THEN log[i][1] ELSE log[i][2]

(* the edge predicate of the configured edge *)
EdgeHolds(edge, prev, curr) ==
    IF edge = "rising" THEN prev <= 0 /\ curr >= 1
    ELSE prev >= 1 /\ curr <= 0

ExampleSequence == <<-1, -1, 0, 1, 1>>

(* the first position of the example whose sample rises over its           *)
(* predecessor                                                             *)
ExampleFiresAt ==
    CHOOSE i \in 2..Len(ExampleSequence) :
        /\ ExampleSequence[i - 1] <= 0 /\ ExampleSequence[i] >= 1
        /\ \A j \in 2..(i - 1) :
             ~(ExampleSequence[j - 1] <= 0 /\ ExampleSequence[j] >= 1)

(* the log is the start of the example sequence on channel 1, sampled      *)
(* without a gap longer than the timeout, by a trigger armed once on the   *)
(* rising edge of channel 1                                                *)
ExampleRun ==
    /\ mgr.trigger_channel = "ch1" /\ mgr.trigger_edge = "rising"
    /\ strm[1].last_rearm_time = 0 /\ ~Rearming(strm[1].pc)
    /\ mgr.trigger_start_time = Epoch
    /\ Len(log) <= Len(ExampleSequence)
    /\ \A i \in 1..Len(log) : log[i][1] = ExampleSequence[i]
    /\ \A i \in 1..Len(log) :
         i < ExampleFiresAt => log[i][3] - Epoch <= trigger_timeout

(* the lines 309-312 and 237-245 of the edge test *)
EdgeTest(pc) == pc \in { 309, 310, 237, 240, 243 }

(* C6: a pass goes to the edge test exactly when the test of line 308      *)
(* finds the trigger armed; the edge test fires the trigger exactly when the sample has a    *)
(* preceding sample and the edge predicate holds between the preceding     *)
(* sample and this one on the trigger channel, whatever trigger_level is;  *)
(* the firing leaves the armed state and reports trigger_captured, and     *)
(* nothing else reports it, so the trigger fires once per arming.  On the  *)
(* sequence -1,-1,0,1,1 with the rising edge it fires at the fourth sample *)
(* and only there.                                                         *)
C6_FiresOnFirstEdge ==
    /\ [][ \A i \in DOMAIN acq :
             (AcqLineOf(i, 308) /\ acq'[i].pc # 308)
             => (acq'[i].pc = 309 <=> Armed(mgr)) ]_vars
    /\ [][ \A i \in DOMAIN acq :
             (AcqStepOf(i) /\ EdgeTest(acq'[i].pc))
             => (AcqLineOf(i, 308) \/ EdgeTest(acq[i].pc)) ]_vars
    /\ [] ( \A i \in DOMAIN acq :
               (acq[i].alive /\ EdgeTest(acq[i].pc)) => Armed(mgr) )
    /\ [][ \A i \in DOMAIN acq :
             (AcqStepOf(i) /\ acq[i].alive /\ acq[i].pc \in { 240, 243 }
                /\ acq'[i].pc \in { 314, 333 })
             => ( acq'[i].pc = 314
                    <=> /\ Len(log) > 1
                        /\ EdgeHolds(mgr.trigger_edge,
                                     TriggerChannelValue(mgr, Len(log) - 1),
                                     TriggerChannelValue(mgr, Len(log))) )
         ]_vars
    /\ [][ \A i \in DOMAIN acq :
             (AcqStepOf(i) /\ acq'[i].pc = 314)
             => acq[i].pc \in { 240, 243 } ]_vars
    /\ [][ \A i \in DOMAIN acq :
             FiresOf(i)
             => (Armed(mgr) /\ ~Armed(mgr') /\ acq'[i].pc = 315) ]_vars
    /\ [][ \A i \in DOMAIN acq :
             (AcqStepOf(i) /\ acq'[i].pc \in 315..328
                /\ acq[i].pc \notin 315..328)
             => FiresOf(i) ]_vars
    /\ [][ Emits(emitted', "trigger_captured") <=> AcqLine(326) ]_vars
    /\ [] ( ExampleRun
            => IF Tested < ExampleFiresAt
               THEN ~mgr.trigger_captured
               ELSE /\ mgr.trigger_captured
                    /\ acq[1].post_trigger_count
                           = Routed - ExampleFiresAt + 1 )

(* the trigger was armed once, before the first sample, and every sample   *)
(* routed so far was staged since                                          *)
FirstArming ==
    strm[1].last_rearm_time = 0 /\ mgr.trigger_start_time = Epoch

(* C7 as claimed: when more samples were staged than the staging capacity, *)
(* the first pre_trigger_buffer_size of them head the main buffers after   *)
(* the firing.                                                             *)
C7_FirstStagedCarried ==
    [][ ( AcqLine(321) /\ FirstArming /\ Routed > pre_trigger_buffer_size )
        => \A i \in 1..pre_trigger_buffer_size :
             mgr'.ch1_diff_buffer[i] = <<i, log[i][1]>>
      ]_vars

(* while the trigger is armed the staging buffers hold the most recent     *)
(* samples routed, consecutive and in order, never more than the staging   *)
(* capacity                                                                *)
StagingIsRecent(m) ==
    \A k \in 1..3 :
        LET d == StagingBuffers(m)[k]
        IN /\ Len(d) <= pre_trigger_buffer_size
           /\ Len(d) <= Routed
           /\ \A i \in 1..Len(d) :
                d[i] = <<Routed - Len(d) + i, log[Routed - Len(d) + i][k]>>

(* the line that carries staging buffer k over, the lines that append the  *)
(* sample to main buffer k                                                 *)
CarriesOver(k) == AcqLine(320 + k)
AppendsToMain(k) == AcqLine(336 + k) \/ AcqLine(351 + k)

(* C7 as amended: the last pre_trigger_buffer_size staged samples head the *)
(* main buffers, in their original order, followed by the firing sample.   *)
(* For every arming the staging buffers hold the most recent samples; the  *)
(* firing puts them behind what the main buffers held, and the routing of  *)
(* the firing sample puts it behind them.                                  *)
C7_LastStagedCarried ==
    /\ [][ \A k \in 1..3 :
             ( CarriesOver(k) /\ FirstArming
                 /\ Routed > pre_trigger_buffer_size )
             => LET n == Routed
                    P == pre_trigger_buffer_size
                IN /\ Len(MainBuffers(mgr')[k]) = P
                   /\ \A i \in 1..P :
                        MainBuffers(mgr')[k][i]
                            = <<n - P + i, log[n - P + i][k]>>
         ]_vars
    /\ [][ \A k \in 1..3 :
             CarriesOver(k)
             => MainBuffers(mgr')[k] =
                    Suffix(MainBuffers(mgr)[k] \o StagingBuffers(mgr)[k],
                           buffer_size)
         ]_vars
    /\ [][ (FiresOf(1) /\ Len(mgr.pre_trigger_ch1) > 0)
           => (acq'[1].pc = 315 /\ mgr'.trigger_captured) ]_vars
    /\ [][ (AcqLineOf(1, 320) /\ Len(mgr.pre_trigger_ch1) > 0)
           => acq'[1].pc = 321 ]_vars
    /\ [][ (AcqLineOf(1, 335) /\ mgr.trigger_captured)
           => acq'[1].pc = 337 ]_vars
    /\ [][ \A k \in 1..3 :
             AppendsToMain(k)
             => MainBuffers(mgr')[k] =
                    Suffix(Append(MainBuffers(mgr)[k], CurrentSample(1)[k]),
                           buffer_size)
         ]_vars
    /\ [] ( (acq[1].alive /\ acq_locked(acq[1].pc))
            => CurrentSample(1)[1] = <<Len(log), log[Len(log)][1]>> )
    /\ [] ( (Armed(mgr) /\ ~MidRouting(acq[1].pc)
               /\ ~Rearming(strm[1].pc))
            => StagingIsRecent(mgr) )

C7_Witness ==
    /\ FirstArming
    /\ mgr.trigger_captured
    /\ acq[1].post_trigger_count = 1
    /\ Len(log) > pre_trigger_buffer_size + 1
    /\ Len(mgr.ch1_diff_buffer) = pre_trigger_buffer_size + 1
    /\ mgr.ch1_diff_buffer[1][1] = Len(log) - pre_trigger_buffer_size

(* C8: a pass on which the trigger times out leaves the engine disarmed   *)
(* without a capture, and the pass reports trigger_timeout with the main   *)
(* buffers empty.                                                          *)
C8_TimeoutLeavesMainEmpty ==
    /\ [][ AcqLine(360) => Disarmed(mgr') ]_vars
    /\ [][ AcqLine(361)
           => /\ Emits(emitted', "trigger_timeout")
              /\ \A k \in 1..3 : MainBuffers(mgr')[k] = <<>> ]_vars

(* C9: the routing of a sample, lines 333-354, that begins in the          *)
(* disarmed state appends the sample to the three main buffers.            *)
C9_DisarmedRoutesToMain ==
    \A i \in DOMAIN acq :
        (acq[i].alive /\ acq[i].pc = 333 /\ Disarmed(mgr))
        => LET r == acq_lines(mgr, acq[i], 357)
           IN \A k \in 1..3 :
                IsLast(MainBuffers(r.m)[k], CurrentSample(i)[k])

(* the samples routed so far as buffer k holds them, oldest first *)
Pushed(k) == [ i \in 1..Routed |-> <<i, log[i][k]>> ]

(* every sample routed was appended to the main buffers: the trigger is    *)
(* disabled and was so from the start of the session                       *)
AllToMain == ~mgr.trigger_enabled /\ mgr.trigger_start_time = None

(* every sample routed was appended to the staging buffers: the trigger is *)
(* enabled and has not fired since the start of the session                *)
AllToStaging ==
    /\ mgr.trigger_enabled /\ ~mgr.trigger_captured
    /\ strm[1].last_rearm_time = 0 /\ ~Rearming(strm[1].pc)

(* C13: a buffer of capacity N that received n appends has length          *)
(* min(n, N) and holds the last min(n, N) appended values, oldest first:   *)
(* the main buffers with N = buffer_size when every sample went to them,   *)
(* the staging buffers with N = pre_trigger_buffer_size when every sample  *)
(* went to them; no main buffer ever exceeds buffer_size and no staging    *)
(* buffer pre_trigger_buffer_size.                                         *)
C13_RingKeepsLastN ==
    /\ \A k \in 1..3 :
         /\ Len(MainBuffers(mgr)[k]) <= buffer_size
         /\ Len(StagingBuffers(mgr)[k]) <= pre_trigger_buffer_size
    /\ (AllToMain /\ ~MidRouting(acq[1].pc))
       => \A k \in 1..3 :
            /\ Len(MainBuffers(mgr)[k]) = Min(Routed, buffer_size)
            /\ MainBuffers(mgr)[k] = Suffix(Pushed(k), buffer_size)
    /\ (AllToStaging /\ ~MidRouting(acq[1].pc))
       => \A k \in 1..3 :
            /\ Len(StagingBuffers(mgr)[k])
                   = Min(Routed, pre_trigger_buffer_size)
            /\ StagingBuffers(mgr)[k]
                   = Suffix(Pushed(k), pre_trigger_buffer_size)

C13_Witness ==
    /\ AllToMain
    /\ Len(log) > buffer_size
    /\ acq[1].pc = 280
    /\ Len(mgr.ch1_diff_buffer) = buffer_size
    /\ mgr.ch1_diff_buffer[1] = <<Len(log) - buffer_size + 1,
                                  log[Len(log) - buffer_size + 1][1]>>
    /\ mgr.timestamp_buffer[buffer_size][2] = log[Len(log)][3]

(* C30: the pass on which the trigger times out leaves the three staging   *)
(* buffers empty.                                                          *)
C30_TimeoutClearsStaging ==
    [][ Emits(emitted', "trigger_timeout")
        => \A k \in 1..3 : StagingBuffers(mgr')[k] = <<>> ]_vars

(* ------------------- the post-trigger part of a capture ---------------- *)

(* the last n samples routed, as the three main buffers hold them *)
LastSamples(n) ==
    [ k \in 1..3 |->
        [ i \in 1..n |-> <<Routed - n + i, log[Routed - n + i][k]>> ] ]

(* the capture under way or complete holds, at the end of each main        *)
(* buffer, the samples routed since the trigger fired, the triggering one  *)
(* included, and they are as many as the loop counted                      *)
PostTriggerPartCounted ==
    (mgr.trigger_enabled /\ mgr.trigger_captured
        /\ acq[1].post_trigger_count <= post_trigger_buffer_size
        /\ acq[1].pc # 315 /\ ~MidRouting(acq[1].pc))
    => /\ acq[1].post_trigger_count \in 0..post_trigger_buffer_size
       /\ acq[1].post_trigger_count <= Routed
       /\ \A k \in 1..3 :
            Suffix(MainBuffers(mgr)[k], acq[1].post_trigger_count)
                = LastSamples(acq[1].post_trigger_count)[k]

(* C34: from the pass where the trigger fires to the pass where the        *)
(* capture completes, exactly post_trigger_buffer_size samples go to the   *)
(* main buffers, behind the carried-over pre-trigger samples, and the      *)
(* triggering sample is the first of them: the firing sets the count to    *)
(* zero, carries the staged samples over and reports the capture; the      *)
(* routing of the triggering sample, in the same pass, and of each later   *)
(* sample of the capture appends the sample and counts it; the capture     *)
(* completes on the pass that brings the count to post_trigger_buffer_size *)
(* and on no earlier one.                                                  *)
C34_PostTriggerQuota ==
    /\ [][ \A i \in DOMAIN acq :
             FiresOf(i) => (mgr'.trigger_captured /\ acq'[i].pc = 315) ]_vars
    /\ [][ \A i \in DOMAIN acq :
             AcqLineOf(i, 315)
             => /\ acq'[i].post_trigger_count = 0
                /\ Captured(mgr')
                /\ CurrentSample(i)[1] = <<Len(log), log[Len(log)][1]>>
                /\ acq'[i] = [ acq[i] EXCEPT !.pc = 320,
                                             !.post_trigger_count = 0 ]
         ]_vars
    /\ [][ \A k \in 1..3 :
             CarriesOver(k)
             => MainBuffers(mgr')[k] =
                    Suffix(MainBuffers(mgr)[k] \o StagingBuffers(mgr)[k],
                           buffer_size) ]_vars
    /\ [][ \A i \in DOMAIN acq :
             AcqLineOf(i, 326)
             => /\ Emits(emitted', "trigger_captured")
                /\ acq'[i] = [ acq[i] EXCEPT !.pc = 333 ] ]_vars
    /\ [][ \A i \in DOMAIN acq :
             (AcqStepOf(i) /\ acq[i].pc \in { 333, 335 } /\ Captured(mgr))
             => acq'[i].pc = acq[i].pc + 2 ]_vars
    /\ [][ \A i \in DOMAIN acq : \A k \in 1..3 :
             (AcqLineOf(i, 336 + k) /\ Captured(mgr))
             => /\ mgr'.trigger_captured /\ mgr'.trigger_armed
                /\ MainBuffers(mgr')[k] =
                       Suffix(Append(MainBuffers(mgr)[k],
                                     CurrentSample(i)[k]),
                              buffer_size) ]_vars
    /\ [][ \A i \in DOMAIN acq :
             (AcqLineOf(i, 339) /\ Captured(mgr))
             => /\ acq'[i].post_trigger_count
                       = acq[i].post_trigger_count + 1
                /\ acq'[i].pc = 344
                       <=> acq'[i].post_trigger_count
                               >= post_trigger_buffer_size
         ]_vars
    /\ [][ \A i \in DOMAIN acq :
             AcqLineOf(i, 344)
             => (Displayed(mgr') /\ acq'[i].pc = 357) ]_vars
    /\ [][ (AcqStep /\ mgr.trigger_armed /\ ~mgr'.trigger_armed)
           => (AcqLine(344) \/ AcqLine(360)) ]_vars
    /\ [] ( (Captured(mgr) /\ acq[1].pc \notin { 315, 344 })
            => acq[1].post_trigger_count < post_trigger_buffer_size )
    /\ [] PostTriggerPartCounted

(* a capture just completed, with carried-over samples before its          *)
(* post-trigger part                                                       *)
C34_Witness ==
    /\ Displayed(mgr)
    /\ acq[1].pc = 280
    /\ acq[1].post_trigger_count = post_trigger_buffer_size
    /\ Len(mgr.ch1_diff_buffer) > post_trigger_buffer_size
    /\ Len(mgr.pre_trigger_ch1) > 0

(* --------------------------- the sampling pace ------------------------- *)

(* the time of sample i of the log *)
SampleTime(i) == log[i][3]

(* the sampling rate of the session, in Hz, and the least number of clock  *)
(* units that is no less than its sampling interval, 1 / rate seconds      *)
SessionRate == mgr.sampling_rate
LeastGap == CHOOSE d \in 0..ClockRate :
                /\ d * SessionRate >= ClockRate
                /\ (d - 1) * SessionRate < ClockRate

(* C35: a pass of the acquisition loop takes at most one sample, and only  *)
(* when at least one sampling interval went by since the sample before     *)
(* (since the start of the loop for the first one); the sample is stamped  *)
(* with the time the pass read, which becomes last_sample_time.  So the    *)
(* times of two consecutive samples are at least one sampling interval     *)
(* apart, also after a late pass.                                          *)
C35_OneSamplePerInterval ==
    /\ [][ Len(log') \in { Len(log), Len(log) + 1 } ]_vars
    /\ [][ \A i \in DOMAIN acq :
             AcqLineOf(i, 282)
             => ( acq'[i].pc = 293
                    <=> (now - acq[i].last_sample_time) * SessionRate
                            >= ClockRate ) ]_vars
    /\ [][ \A i \in DOMAIN acq :
             (AcqLineOf(i, 282) /\ acq'[i].pc = 293)
             => acq'[i].current_time = now ]_vars
    /\ [][ SampleTaken
           => \E i \in DOMAIN acq :
                /\ AcqLineOf(i, 293) /\ acq'[i].pc = 306
                /\ log'[Len(log')][3] = acq[i].current_time ]_vars
    /\ [][ \A i \in DOMAIN acq :
             (AcqStepOf(i) /\ acq'[i].pc = 293) => acq[i].pc = 282 ]_vars
    /\ [][ \A i \in DOMAIN acq :
             (AcqStepOf(i) /\ acq'[i].pc = 306) => acq[i].pc = 293 ]_vars
    /\ [][ \A i \in DOMAIN acq :
             (AcqStepOf(i) /\ acq_locked(acq[i].pc) /\ acq'[i].pc = 280)
             => acq'[i].last_sample_time = acq[i].current_time ]_vars
    /\ [] ( \A i \in 1..(Len(log) - 1) :
                (SampleTime(i + 1) - SampleTime(i)) * SessionRate
                    >= ClockRate )

(* at 3000 Hz, where the interval is 3 units and a third: the first sample *)
(* came late, and the one after it followed as soon as it could, 4 units   *)
(* later                                                                   *)
C35_Witness ==
    /\ SessionRate = 3000
    /\ Len(log) >= 2
    /\ SampleTime(1) - Epoch > LeastGap
    /\ SampleTime(2) - SampleTime(1) = LeastGap
    /\ LeastGap = 4

(* ------------------------ the edge behind a firing --------------------- *)

(* the trigger channel was high in every sample of the session so far *)
ConstantlyHigh ==
    /\ Len(log) > 0
    /\ \A i \in 1..Len(log) :
         (IF mgr.trigger_channel = "ch1" THEN log[i][1] ELSE log[i][2]) = 1

(* C37: the trigger fires only on a sample of the session that has a       *)
(* sample of the session before it, the earlier one on the 'previous' side *)
(* of the configured edge and the later one on its 'current' side; a       *)
(* channel that is high from the first sample of the session on never      *)
(* fires the rising edge.                                                  *)
C37_FiresOnlyOnSampledEdge ==
    /\ [][ Emits(emitted', "trigger_captured")
           => /\ Len(log) > 1
              /\ EdgeHolds(mgr.trigger_edge,
                           TriggerChannelValue(mgr, Len(log) - 1),
                           TriggerChannelValue(mgr, Len(log))) ]_vars
    /\ [] ( (ConstantlyHigh /\ mgr.trigger_edge = "rising")
            => ~mgr.trigger_captured )


(* ------------------------- the display window -------------------------- *)

(* the number of samples that fill the screen: timebase (microseconds per  *)
(* division) times ten divisions times the sampling rate                   *)
ScreenSamples(timebase, sampling_rate) ==
    (timebase * 10 * sampling_rate) \div 1000000

(* the length of the window: ScreenSamples held between MinWindow and the  *)
(* length of the buffer, the buffer winning when it is shorter             *)
Clamp(n, size) == Min(Max(Min(n, size), MinWindow), size)

(* the line of the dispatcher j that copies main buffer k *)
Copies(j, k) == StrmLineOf(j, 530 + k) \/ StrmLineOf(j, 547 + k)

(* the window the dispatcher's locals hold *)
WindowOf(s) == <<s.ch1_data, s.ch2_data, s.timestamps>>

(* C12: the window of a dispatcher pass is the suffix of the main buffers  *)
(* of length clamp(timebase * 10 * sampling_rate, min_samples, buffer      *)
(* length): the pass takes the length of the buffer, starts the window     *)
(* that many samples before the end, copies the three buffers from there   *)
(* on, and emits that window.                                              *)
C12_WindowIsClampedSuffix ==
    /\ [][ \A j \in DOMAIN strm :
             StrmLineOf(j, 478)
             => strm'[j].buffer_size = Len(mgr.ch1_diff_buffer) ]_vars
    /\ [][ \A j \in DOMAIN strm :
             (StrmLineOf(j, 516) /\ strm'[j].alive)
             => strm'[j].start_idx =
                  strm[j].buffer_size
                    - Clamp(ScreenSamples(strm[j].target_time_window,
                                          mgr.sampling_rate),
                            strm[j].buffer_size) ]_vars
    /\ [][ \A j \in DOMAIN strm : \A k \in 1..3 :
             Copies(j, k)
             => WindowOf(strm'[j])[k]
                    = list_from(MainBuffers(mgr)[k], strm[j].start_idx)
         ]_vars
    /\ [][ \A j \in DOMAIN strm :
             StrmLineOf(j, 556)
             => emitted' = << data_to_send(strm[j]) >> ]_vars

(* two windows with the same samples and the same scales *)
SameWindow(w1, w2) ==
    /\ w1.ch1_data = w2.ch1_data
    /\ w1.ch2_data = w2.ch2_data
    /\ w1.timestamps = w2.timestamps
    /\ w1.timebase = w2.timebase
    /\ w1.sampling_rate = w2.sampling_rate

(* no set_timebase and no set_sampling_rate came since the pass under way  *)
(* of the dispatcher j read the scales: its window is sized and labelled   *)
(* with the scales the manager has now                                     *)
ScalesSteady(j) ==
    /\ strm[j].timebase = mgr.timebase
    /\ strm[j].sampling_rate = mgr.sampling_rate
    /\ strm[j].target_samples
           = target_samples(mgr.timebase, mgr.sampling_rate)

(* no sample came since the pass under way of the dispatcher j copied the  *)
(* buffers: the newest sample of its window is the newest of each main     *)
(* buffer                                                                  *)
NoNewSample(j) ==
    \A k \in 1..3 :
        /\ Len(WindowOf(strm[j])[k]) > 0
        /\ IsLast(MainBuffers(mgr)[k],
                  WindowOf(strm[j])[k][Len(WindowOf(strm[j])[k])])

(* the dispatcher j is about to hand its window to the sink *)
AboutToEmit(j) == strm[j].alive /\ strm[j].pc = 556

(* the pass that follows, with no sample and no call in between, on the    *)
(* manager m with the locals s after d units of time                       *)
NextPass(m, s, d) == streaming_pass(m, strm_rest(s), now + d, now + d)

(* C26: when a dispatcher pass emits a window and the next pass runs with  *)
(* no new sample and no control call in between, the window of the next    *)
(* pass, if it emits one, has the same samples and the same scales.        *)
C26_SameWindowWithoutNewData ==
    /\ [] ( \A j \in DOMAIN strm :
               (AboutToEmit(j) /\ ScalesSteady(j) /\ NoNewSample(j))
               => \A d \in 0..Epoch :
                    LET r == NextPass(mgr, strm[j], d)
                    IN r.ev # <<>>
                         => SameWindow(data_to_send(strm[j]), r.ev[1]) )
    /\ [][ \A j \in DOMAIN strm :
             StrmLineOf(j, 556)
             => emitted' = << data_to_send(strm[j]) >> ]_vars

C26_Witness ==
    \E j \in DOMAIN strm :
        /\ AboutToEmit(j) /\ ScalesSteady(j) /\ NoNewSample(j)
        /\ Len(strm[j].ch1_data) = 2
        /\ Len(mgr.ch1_diff_buffer) = 3
        /\ mgr.timebase = 35
        /\ NextPass(mgr, strm[j], 1).ev # <<>>

(* the values held by a channel buffer *)
Values(d) == { d[i][2] : i \in 1..Len(d) }

(* C27: the differential value of (1,0) is 1, of (0,1) is -1, of (1,1)     *)
(* and (0,0) is 0, and every value in the channel buffers, main and        *)
(* staging, and in an emitted window is one of -1, 0, 1.                   *)
C27_DifferentialInRange ==
    /\ differential(1, 0) = 1 /\ differential(0, 1) = -1
    /\ differential(1, 1) = 0 /\ differential(0, 0) = 0
    /\ Values(mgr.ch1_diff_buffer) \cup Values(mgr.ch2_diff_buffer)
         \cup Values(mgr.pre_trigger_ch1) \cup Values(mgr.pre_trigger_ch2)
         \subseteq { -1, 0, 1 }
    /\ \A i \in 1..Len(emitted) :
         emitted[i].type = "logic_analyzer_data"
         => Values(emitted[i].ch1_data) \cup Values(emitted[i].ch2_data)
              \subseteq { -1, 0, 1 }

C27_Witness ==
    /\ Values(mgr.ch1_diff_buffer) = { -1, 1 }
    /\ Values(mgr.ch2_diff_buffer) = { 0 }
    /\ Len(emitted) = 1 /\ emitted[1].type = "logic_analyzer_data"
    /\ Values(emitted[1].ch1_data) = { -1, 1 }

(* ------------------------- start, stop, configure ---------------------- *)

(* the step is a line of the call name in the request thread r *)
StatementOf(r, name) ==
    CtlStepOf(r) /\ (ctl[r].op = name \/ BeginsIn(r, name))

(* C15: the chip is released only when both loops have ended, and no       *)
(* acquisition pass is at its reads of the lines with the chip released.   *)
C15_ReleaseAfterLoopsExit ==
    /\ [][ (mgr.chip # NoChip /\ mgr'.chip = NoChip)
           => /\ \A i \in DOMAIN acq : ~acq[i].alive
              /\ \A j \in DOMAIN strm : ~strm[j].alive ]_vars
    /\ [][ AcqLine(293) => mgr.chip # NoChip ]_vars

(* C17: when a start returns success, and the acquisition loop of the new  *)
(* session has not yet stored a sample, the three main buffers and the     *)
(* three staging buffers are empty.                                        *)
C17_StartLeavesBuffersEmpty ==
    [][ \A r \in Requests :
          (ReturnsIn(r, "start_acquisition") /\ ctl'[r].ok
             /\ acq'[mgr'.acquisition_thread].tick = 0)
          => \A k \in 1..3 : /\ MainBuffers(mgr')[k] = <<>>
                             /\ StagingBuffers(mgr')[k] = <<>> ]_vars

(* the arguments of the call are outside the sets the trigger accepts *)
InvalidConfig(c) ==
    \/ c.channel \notin { "ch1", "ch2" }
    \/ c.edge \notin { "rising", "falling" }
    \/ c.level \notin { -1, 0, 1 }

(* C19: set_trigger_config with an argument outside its set returns an     *)
(* error, and none of its statements changes the enabled, armed, captured  *)
(* flags, the arm time or the staging buffers.                             *)
C19_InvalidConfigRejected ==
    /\ [][ \A r \in Requests :
             (ReturnsIn(r, "set_trigger_config") /\ InvalidConfig(ctl'[r]))
             => ~ctl'[r].ok ]_vars
    /\ [][ \A r \in Requests :
             (StatementOf(r, "set_trigger_config")
                /\ InvalidConfig(ctl'[r]))
           => /\ mgr'.trigger_enabled = mgr.trigger_enabled
              /\ mgr'.trigger_armed = mgr.trigger_armed
              /\ mgr'.trigger_captured = mgr.trigger_captured
              /\ mgr'.trigger_start_time = mgr.trigger_start_time
              /\ StagingBuffers(mgr') = StagingBuffers(mgr) ]_vars

(* C20: start_acquisition called while acquiring returns an error at its   *)
(* first statement and changes nothing: the manager, the loops and the     *)
(* sink are as before.                                                     *)
C20_StartWhileAcquiringRefused ==
    [][ \A r \in Requests :
          (BeginsIn(r, "start_acquisition") /\ mgr.acquiring)
          => /\ ReturnsIn(r, "start_acquisition")
             /\ ~ctl'[r].ok
             /\ mgr' = mgr
             /\ acq' = acq
             /\ strm' = strm
             /\ emitted' = <<>> ]_vars

C20_Witness ==
    /\ \E r \in Requests :
         /\ ctl[r].last = "start_acquisition" /\ ~ctl[r].ok
         /\ ctl[r].op = "idle"
         /\ ctl[r].message = "Already acquiring"
    /\ mgr.acquiring
    /\ Len(acq) = 1 /\ acq[1].alive
    /\ Len(strm) = 1 /\ strm[1].alive
    /\ Len(log) > 0
    /\ Len(mgr.ch1_diff_buffer) > 0

(* no call was made on the manager before the call the request thread r is *)
(* in, and none is made beside it                                          *)
FirstCall(r) ==
    \A q \in Requests : ctl[q].calls = 0 /\ (q # r => ctl[q].op = "idle")

(* C21: a stop_acquisition that is the first call made on the manager,     *)
(* when no session was ever started, returns an error and none of its      *)
(* statements changes the manager.                                         *)
C21_StopWhileIdleRefused ==
    /\ [][ \A r \in Requests :
             (ReturnsIn(r, "stop_acquisition") /\ FirstCall(r))
             => ~ctl'[r].ok ]_vars
    /\ [][ \A r \in Requests :
             (StatementOf(r, "stop_acquisition") /\ FirstCall(r))
             => mgr' = mgr ]_vars

C16_LoopsEndAfterStop ==
    /\ mgr.stop_event
         ~> (/\ \A i \in DOMAIN acq : ~acq[i].alive
             /\ \A j \in DOMAIN strm : ~strm[j].alive)
    /\ [][ \A i \in DOMAIN acq :
             (mgr.stop_event /\ AcqLineOf(i, 280))
             => \/ ~acq'[i].alive
                \/ acq[i].ld = 0 /\ acq'[i] = [ acq[i] EXCEPT !.ld = 1 ]
         ]_vars
    /\ [][ \A j \in DOMAIN strm :
             (mgr.stop_event /\ StrmLineOf(j, 466))
             => \/ ~strm'[j].alive
                \/ strm[j].ld = 0 /\ strm'[j] = [ strm[j] EXCEPT !.ld = 1 ]
         ]_vars
    /\ [][ \A j \in DOMAIN strm :
             (mgr.stop_event /\ StrmLineOf(j, 468) /\ ~mgr.acquiring)
             => ~strm'[j].alive ]_vars

(* C18: after a read of the lines has failed in an active session the      *)
(* session is aborted without a call from outside: acquiring becomes       *)
(* false and the dispatcher ends.                                          *)
C18_FaultAbortsSession ==
    (mgr.acquiring
       /\ \E i \in DOMAIN acq : ~acq[i].alive /\ acq[i].pc = 376)
        ~> (~mgr.acquiring /\ \A j \in DOMAIN strm : ~strm[j].alive)

(* the start could not get the lines: lgpio is missing, gpiochip_open      *)
(* raised or a gpio_claim_input raised                                     *)
HardwareUnavailable(m, c) ==
    ~m.lgpio_available \/ c.opened = NoChip \/ ~c.claimed

(* the lines of initialize_gpio and of the cleanup_gpio it calls when the  *)
(* lines cannot be had                                                     *)
Initialising(pc) == pc \in { 90, 95 } \cup 105..107

(* C22: a start that cannot get the hardware returns an error, leaves      *)
(* acquiring false, starts neither loop, emits nothing and leaves the      *)
(* three main buffers and the three staging buffers as they were: so does  *)
(* every statement it runs, and it never reaches the statements that       *)
(* follow the initialisation of the lines.                                 *)
C22_HardwareUnavailableFailsStart ==
    [][ \A r \in Requests :
          (StatementOf(r, "start_acquisition") /\ ~mgr.acquiring
             /\ HardwareUnavailable(mgr, ctl'[r]))
          => /\ ReturnsIn(r, "start_acquisition") => ~ctl'[r].ok
             /\ ctl'[r].op = "idle" \/ Initialising(ctl'[r].pc)
             /\ ~mgr'.acquiring
             /\ acq' = acq /\ strm' = strm
             /\ emitted' = <<>>
             /\ MainBuffers(mgr') = MainBuffers(mgr)
             /\ StagingBuffers(mgr') = StagingBuffers(mgr) ]_vars

C22_Witness ==
    /\ \E r \in Requests :
         /\ ctl[r].last = "start_acquisition" /\ ~ctl[r].ok
         /\ ctl[r].op = "idle"
         /\ ctl[r].opened # NoChip /\ ~ctl[r].claimed
         /\ ctl[r].message = "GPIO initialization failed: GPIO busy"
         /\ ~ctl[r].closes /\ mgr.chip = ctl[r].opened
    /\ mgr.lgpio_available
    /\ ~mgr.acquiring
    /\ Len(acq) = 1 /\ ~acq[1].alive
    /\ Len(strm) = 1 /\ ~strm[1].alive
    /\ Len(mgr.ch1_diff_buffer) > 0

(* the samples of a buffer are in the order in which they were taken, none *)
(* twice                                                                   *)
InProductionOrder(d) ==
    \A i, j \in 1..Len(d) : i < j => d[i][1] < d[j][1]

(* the values of a buffer never go down *)
NonDecreasing(d) ==
    \A i, j \in 1..Len(d) : i < j => d[i][2] <= d[j][2]

(* C23: the main buffers hold their samples in the order in which they     *)
(* were taken, none twice, and the timestamps they hold never go down,     *)
(* whatever the acquisition loop carries over and whenever arm_trigger is  *)
(* called.                                                                 *)
C23_MainBuffersInProductionOrder ==
    /\ \A k \in 1..3 : InProductionOrder(MainBuffers(mgr)[k])
    /\ NonDecreasing(mgr.timestamp_buffer)

(* ------------------------ the automatic re-arm ------------------------- *)

(* the last step handed a window of the completed capture to the sink *)
CaptureWindowEmitted ==
    \E i \in 1..Len(emitted) :
        /\ emitted[i].type = "logic_analyzer_data"
        /\ emitted[i].trigger_captured /\ ~emitted[i].trigger_armed
        /\ Len(emitted[i].ch1_data) > 0

(* the clock can still pass the delay of the re-arm within MaxElapsedRearm *)
RearmDelayFits ==
    strm[1].last_rearm_time + RearmDelay + 1 <= Epoch + MaxElapsedRearm

(* the step hands a window flagged as a completed capture to the sink *)
EmitsCaptureWindow ==
    \E i \in 1..Len(emitted') :
        /\ emitted'[i].type = "logic_analyzer_data"
        /\ emitted'[i].trigger_captured

(* C32: in a running session without control calls a completed capture     *)
(* that was not shown yet leads to the emission of its window, a completed *)
(* capture leads to the armed state with the six buffers empty, the lines  *)
(* of the re-arm (493 to 502) are entered only from the test of line 491   *)
(* with the capture marked shown, they emit nothing and end the pass at    *)
(* the loop condition, and the lines that build and emit a window are not  *)
(* entered from them: no pass both emits a window and re-arms.             *)
C32_CaptureShownThenRearmed ==
    /\ (Displayed(mgr) /\ ~mgr.trigger_displayed /\ ~Rearming(strm[1].pc))
           ~> CaptureWindowEmitted
    /\ (Displayed(mgr) /\ RearmDelayFits)
           ~> (/\ Armed(mgr)
               /\ \A k \in 1..3 : /\ MainBuffers(mgr)[k] = <<>>
                                  /\ StagingBuffers(mgr)[k] = <<>>)
    /\ [][ \A j \in DOMAIN strm :
             (StrmStepOf(j) /\ Rearming(strm'[j].pc)
                /\ ~Rearming(strm[j].pc))
             => StrmLineOf(j, 491) /\ mgr.trigger_displayed ]_vars
    /\ [][ \A j \in DOMAIN strm :
             (StrmStepOf(j) /\ Rearming(strm[j].pc))
             => /\ emitted' = <<>>
                /\ Rearming(strm'[j].pc) \/ strm'[j].pc = 466 ]_vars
    /\ [][ \A j \in DOMAIN strm :
             (StrmStepOf(j) /\ strm'[j].pc \in 515..556)
             => strm[j].pc \in { 481, 491 } \cup 515..550 ]_vars
    /\ [][ \A j \in DOMAIN strm :
             (StrmStepOf(j) /\ EmitsCaptureWindow)
             => /\ StrmLineOf(j, 556) /\ strm'[j].pc = 466
                /\ mgr' = mgr ]_vars
    /\ [][ EmitsCaptureWindow => StrmStep ]_vars

C32_Witness ==
    /\ Armed(mgr)
    /\ strm[1].alive /\ strm[1].pc = 466
    /\ strm[1].last_rearm_time > Epoch
    /\ \A k \in 1..3 : /\ MainBuffers(mgr)[k] = <<>>
                       /\ StagingBuffers(mgr)[k] = <<>>
    /\ Len(log) >= post_trigger_buffer_size
    /\ emitted = <<>>

(* ------------------------------ the lock ------------------------------- *)

(* the lock is held by a thread that is alive and inside its locked region *)
HolderInsideRegion ==
    /\ \A i \in DOMAIN acq :
         mgr.buffer_lock = <<"acq", i>>
         => (acq[i].alive /\ acq_locked(acq[i].pc))
    /\ \A j \in DOMAIN strm :
         mgr.buffer_lock = <<"strm", j>>
         => (strm[j].alive /\ strm_locked(strm[j].pc))
    /\ \A r \in Requests :
         mgr.buffer_lock = <<"ctl", r>>
         => (call_locked(ctl[r]) # 0 /\ ctl[r].pc > call_locked(ctl[r]))
    /\ mgr.buffer_lock \in
         { Free } \cup { <<"acq", i>> : i \in DOMAIN acq }
                  \cup { <<"strm", j>> : j \in DOMAIN strm }
                  \cup { <<"ctl", r>> : r \in Requests }

(* C33: buffer_lock is never left held: whoever holds it is a live thread  *)
(* inside its locked region, a held lock is always released again, and a   *)
(* loop that is back at its loop condition or has ended, by an early exit  *)
(* or an exception, does not hold it.                                      *)
C33_LockAlwaysReleased ==
    /\ []HolderInsideRegion
    /\ (mgr.buffer_lock # Free) ~> (mgr.buffer_lock = Free)
    /\ [](\A i \in DOMAIN acq :
             (~acq[i].alive \/ ~acq_locked(acq[i].pc))
             => mgr.buffer_lock # <<"acq", i>>)
    /\ [](\A j \in DOMAIN strm :
             (~strm[j].alive \/ ~strm_locked(strm[j].pc))
             => mgr.buffer_lock # <<"strm", j>>)

(* the emit of line 326 raised with the lock held and the sample not yet   *)
(* routed, and the dispatcher has the lock since                           *)
C33_Witness ==
    /\ Len(acq) = 1 /\ Len(strm) = 1
    /\ acq[1].pc = 376 /\ ~acq[1].alive
    /\ Len(log) > 0
    /\ mgr.trigger_captured /\ acq[1].trigger_channel_curr = 1
    /\ ~IsLast(mgr.ch1_diff_buffer, CurrentSample(1)[1])
    /\ strm[1].alive /\ strm_locked(strm[1].pc)
    /\ mgr.buffer_lock = <<"strm", 1>>

(* ---------------------- the loops of a manager ------------------------- *)

(* the loops of the sequence that are running *)
RunningLoops(threads) == { i \in 1..Len(threads) : threads[i].alive }

(* C38: at any time at most one acquisition loop and at most one           *)
(* streaming loop are running on the manager, however the calls of         *)
(* start_acquisition and stop_acquisition interleave.                      *)
C38_OneLoopOfEachKind ==
    /\ Cardinality(RunningLoops(acq)) <= 1
    /\ Cardinality(RunningLoops(strm)) <= 1

(* ---------------------- enabling during a session ---------------------- *)

(* the times of the samples in the sequence of <<tick, time>> pairs *)
TimesOf(d) == { d[i][2] : i \in 1..Len(d) }

(* C39: when the dispatcher, holding the lock with no control call under   *)
(* way, takes the branch of a completed capture at line 521, neither the   *)
(* main buffers nor the window it is about to copy hold a sample acquired  *)
(* before the trigger was enabled or armed for that capture: every sample  *)
(* was taken at or after trigger_start_time, the time of the call (or of   *)
(* the automatic re-arm) that armed the trigger.                           *)
C39_CaptureWindowHoldsOnlyCapture ==
    [][ \A j \in DOMAIN strm :
          (StrmLineOf(j, 521) /\ strm'[j].pc = 527
             /\ \A r \in Requests : ctl[r].op = "idle")
          => /\ \A t \in TimesOf(mgr.timestamp_buffer) :
                  t >= mgr.trigger_start_time
             /\ \A t \in TimesOf(list_from(mgr.timestamp_buffer,
                                           strm[j].start_idx)) :
                  t >= mgr.trigger_start_time ]_vars

(* ------------------- the rate of a running session --------------------- *)

(* C40: the sampling_rate of every window the dispatcher emits, which is   *)
(* the rate the window was sized with, is the rate at which the running    *)
(* acquisition loop samples: one sample per sample_interval of the loop.   *)
C40_ReportedRateIsActualRate ==
    [][ \A j \in DOMAIN strm : \A i \in DOMAIN acq :
          (StrmLineOf(j, 556) /\ ScalesSteady(j) /\ acq[i].alive)
          => /\ emitted'[1].sampling_rate = mgr.sampling_rate
             /\ sample_interval_of(emitted'[1].sampling_rate)
                    = acq[i].sample_interval ]_vars

(* ------------------------- _analyze_pwm_signal ------------------------- *)
(* ------- the analyzer called on windows of samples taken at a ---------- *)
(* ------- constant rate: time is counted in sampling intervals ---------- *)

WindowLen == 10
MaxHalfPeriod == 5
MaxPeriods == 5

(* len(data) < 10, line 381 *)
min_samples == 10

(* the elements of the set S of integers in increasing order *)
Sorted(S) ==
    [ i \in 1..Cardinality(S) |->
        CHOOSE p \in S : Cardinality({ q \in S : q < p }) = i - 1 ]

(* np.where(np.diff(signal) == delta)[0] + 1, lines 390-392: the places    *)
(* whose sample is delta above the sample before, counted from 1           *)
edges_of(data, delta) ==
    Sorted({ p \in 2..Len(data) : data[p] - data[p - 1] = delta })

(* np.where(np.diff(signal) != 0)[0], line 404: the places whose next      *)
(* sample differs, counted from 1                                          *)
changes_of(data) ==
    Sorted({ p \in 1..(Len(data) - 1) : data[p + 1] # data[p] })

(* a float as a fraction <<numerator, denominator>> *)
Zero == <<0, 1>>

(* 1.0 / np.mean(np.diff(times[places])), lines 407-410 and 424-426 *)
rate_of(times, places) ==
    LET span == times[places[Len(places)]] - times[places[1]]
    IN IF span > 0 THEN <<Len(places) - 1, span>> ELSE Zero

(* lines 442-447: the time from each rising edge to the falling edge of    *)
(* the same rank, where that one comes later                               *)
high_time_of(times, rising_edges, falling_edges) ==
    LET sum[i \in 0..Len(rising_edges)] ==
            IF i = 0 THEN 0
            ELSE sum[i - 1]
                 + (IF i <= Len(falling_edges)
                       /\ falling_edges[i] > rising_edges[i]
                    THEN times[falling_edges[i]] - times[rising_edges[i]]
                    ELSE 0)
    IN sum[Len(rising_edges)]

(* _analyze_pwm_signal, lines 381-455, on data and timestamps of the same  *)
(* length: (frequency, duty_cycle), the frequency in cycles per sampling   *)
(* interval, the duty cycle in percent                                     *)
analyze_pwm_signal(data, timestamps) ==
    IF Len(data) < min_samples \/ Len(timestamps) < min_samples
    THEN [ frequency |-> Zero, duty_cycle |-> Zero ]
    ELSE
    LET rising_edges == edges_of(data, 1)
        falling_edges == edges_of(data, -1)
        n == Len(data)
    IN IF Len(rising_edges) < 2 /\ Len(falling_edges) < 2
       THEN LET high_count == Cardinality({ p \in 1..n : data[p] >= 1 })
                changes == changes_of(data)
            IN [ frequency |-> IF Len(changes) >= 4
                               THEN rate_of(timestamps, changes)
                               ELSE Zero,
                 duty_cycle |-> <<high_count * 100, n>> ]
       ELSE IF Len(rising_edges) + Len(falling_edges) < 4
       THEN [ frequency |-> Zero, duty_cycle |-> Zero ]
       ELSE LET time_span == timestamps[n] - timestamps[1]
                edge_count == Len(rising_edges) + Len(falling_edges)
                high_time == high_time_of(timestamps, rising_edges,
                                          falling_edges)
            IN [ frequency |->
                     IF Len(rising_edges) >= 2
                     THEN rate_of(timestamps, rising_edges)
                     ELSE IF time_span > 0 /\ edge_count > 0
                     THEN <<edge_count, 2 * time_span>>
                     ELSE Zero,
                 duty_cycle |->
                     IF time_span > 0 THEN <<high_time * 100, time_span>>
                     ELSE Zero ]

(* the timestamps of n samples taken one sampling interval apart *)
Uniform(n) == [ i \in 1..n |-> Epoch + i ]

(* the window of n binary samples that starts at the level first and       *)
(* changes level at the places in edges                                    *)
BinaryWindow(n, first, edges) ==
    [ i \in 1..n |->
        (first + Cardinality({ p \in edges : p <= i })) % 2 ]

(* the windows with at most three edges, of length WindowLen and, too      *)
(* short for the analyzer, of length min_samples - 1                       *)
FewEdgeWindows ==
    { BinaryWindow(n, first, edges) :
        n \in { min_samples - 1, WindowLen }, first \in { 0, 1 },
        edges \in { e \in SUBSET (2..WindowLen) : Cardinality(e) <= 3 } }

(* n samples of the square wave of half period h, 2 * h samples a period,  *)
(* from the phase p on: p < h starts low, p >= h starts high               *)
SquareWave(h, p, n) ==
    [ i \in 1..n |-> IF ((i - 1 + p) % (2 * h)) < h THEN 0 ELSE 1 ]

(* the square waves of 8 or more samples a period over 4 or more periods   *)
SquareWaves ==
    { SquareWave(h, p, k * 2 * h) :
        h \in 4..MaxHalfPeriod, p \in 0..(2 * MaxHalfPeriod - 1),
        k \in 4..MaxPeriods }

(* the request thread inside a call of the analyzer and after it *)
AnalyzeCall(data, timestamps) ==
    [ op |-> "analyze_pwm_signal", pc |-> 1,
      data |-> data, timestamps |-> timestamps,
      frequency |-> Zero, duty_cycle |-> Zero ]

InitPwm ==
    /\ mgr = NewManager
    /\ acq = <<>>
    /\ strm = <<>>
    /\ \E data \in FewEdgeWindows \cup SquareWaves :
         ctl = AnalyzeCall(data, Uniform(Len(data)))
    /\ now = Epoch
    /\ emitted = <<>>
    /\ log = <<>>

analyze_pwm_signal_call ==
    /\ ctl.pc = 1
    /\ LET r == analyze_pwm_signal(ctl.data, ctl.timestamps)
       IN ctl' = [ ctl EXCEPT !.pc = 2, !.frequency = r.frequency,
                              !.duty_cycle = r.duty_cycle ]
    /\ UNCHANGED <<mgr, acq, strm, now, emitted, log>>

NextPwm == analyze_pwm_signal_call

SpecPwm == InitPwm /\ [][NextPwm]_vars

(* the number of edges of the window *)
EdgeCount(data) == Len(edges_of(data, 1)) + Len(edges_of(data, -1))

(* C28: on a window with fewer than four edges, a constant one included,   *)
(* the analyzer returns (0.0, 0.0).                                        *)
C28_FewEdgesGiveZero ==
    (ctl.pc = 2 /\ EdgeCount(ctl.data) < 4)
        => (ctl.frequency[1] = 0 /\ ctl.duty_cycle[1] = 0)

(* the window is a square wave of half period h, over four periods or more *)
IsSquareWave(data, h) ==
    /\ Len(data) >= 4 * 2 * h
    /\ \E p \in 0..(2 * h - 1) : data = SquareWave(h, p, Len(data))

(* the fraction f is within tol percent of the fraction num / den *)
WithinPercentOf(f, num, den, tol) ==
    LET d == f[1] * den - num * f[2]
    IN (IF d >= 0 THEN d ELSE -d) * 100 <= tol * num * f[2]

(* the fraction f is within tol of the number c *)
WithinOf(f, c, tol) ==
    LET d == f[1] - c * f[2]
    IN (IF d >= 0 THEN d ELSE -d) <= tol * f[2]

(* C29: on a square wave of period T, 8 or more samples a period, 4 or     *)
(* more periods, starting low or high, the analyzer returns a frequency    *)
(* within 5% of 1/T and a duty cycle within 5 points of 50%.               *)
C29_SquareWaveMeasured ==
    \A h \in 4..MaxHalfPeriod :
        (ctl.pc = 2 /\ IsSquareWave(ctl.data, h))
            => /\ WithinPercentOf(ctl.frequency, 1, 2 * h, 5)
               /\ WithinOf(ctl.duty_cycle, 50, 5)


(* ----------------- set_timebase on every kind of argument -------------- *)

MaxCallsTimebase == 5

(* the arguments of set_timebase: ints and floats (finite ones, nan, the   *)
(* infinities, an int beyond the range of a float such as 10**400), a      *)
(* string that spells a number, a string that spells none, None            *)
TimebaseNumbers == Timebases \cup { -5, 0, 1000, 500000 }
TimebaseArgs ==
    [ kind : { "number" }, value : TimebaseNumbers ]
        \cup [ kind : { "numeral" }, value : { 35 } ]
        \cup [ kind : { "inf" }, value : { PosInf, NegInf } ]
        \cup [ kind : { "nan", "huge", "text", "none" }, value : { 0 } ]

(* float(x): the value, or ok = FALSE where float raises (OverflowError,   *)
(* ValueError, TypeError)                                                  *)
float_of(x) ==
    IF x.kind \in { "number", "numeral", "inf" }
    THEN [ ok |-> TRUE, value |-> x.value ]
    ELSE IF x.kind = "nan" THEN [ ok |-> TRUE, value |-> NaN ]
    ELSE [ ok |-> FALSE, value |-> 0 ]

(* set_timebase, lines 186-198: the manager afterwards and the value       *)
(* returned                                                                *)
set_timebase_outcome(m, timebase) ==
    LET f == float_of(timebase)
    IN IF ~f.ok
       THEN [ m |-> m, ok |-> FALSE ]
       ELSE [ m |-> set_timebase_to(m, f.value), ok |-> TRUE ]

(* the request thread between calls of set_timebase: the number of calls   *)
(* made, the argument of the last one and what it returned                 *)
TimebaseCall(calls, last, timebase, ok) ==
    [ op |-> "idle", calls |-> calls, last |-> last,
      timebase |-> timebase, ok |-> ok ]

InitTimebase ==
    /\ mgr = NewManager
    /\ acq = <<>>
    /\ strm = <<>>
    /\ ctl = TimebaseCall(0, "none", [ kind |-> "none", value |-> 0 ], TRUE)
    /\ now = Epoch
    /\ emitted = <<>>
    /\ log = <<>>

set_timebase_call(maxCalls) ==
    /\ ctl.calls < maxCalls
    /\ \E timebase \in TimebaseArgs :
         LET r == set_timebase_outcome(mgr, timebase)
         IN /\ mgr' = r.m
            /\ ctl' = TimebaseCall(ctl.calls + 1, "set_timebase", timebase,
                                   r.ok)
    /\ UNCHANGED <<acq, strm, now, emitted, log>>

NextTimebase == set_timebase_call(MaxCallsTimebase)

SpecTimebase == InitTimebase /\ [][NextTimebase]_vars

(* the argument is a number: an int or a float *)
Numeric(x) == x.kind \in { "number", "inf", "nan", "huge" }

(* the step is the return of a call of the route set_timebase *)
SetTimebaseReturns ==
    ctl'.calls = ctl.calls + 1 /\ ctl'.last = "set_timebase"

(* C36: after any sequence of set_timebase calls the stored timebase lies  *)
(* between 10 microseconds and 10 seconds; a call with a number below the  *)
(* minimum stores the minimum, one with a number above the maximum stores  *)
(* the maximum; a call with an argument that is no number (a string that   *)
(* spells none, None) returns False and leaves the timebase as it was.     *)
C36_TimebaseWithinLimits ==
    /\ [] ( float_le(timebase_min, mgr.timebase)
            /\ float_le(mgr.timebase, timebase_max) )
    /\ [][ (SetTimebaseReturns /\ Numeric(ctl'.timebase)
              /\ ctl'.timebase.kind # "nan")
           => LET v == IF ctl'.timebase.kind = "huge" THEN PosInf
                       ELSE ctl'.timebase.value
              IN mgr'.timebase = IF v < timebase_min THEN timebase_min
                                 ELSE IF v > timebase_max THEN timebase_max
                                 ELSE v ]_vars
    /\ [][ (SetTimebaseReturns
              /\ ctl'.timebase.kind \in { "text", "none" })
           => (~ctl'.ok /\ mgr'.timebase = mgr.timebase) ]_vars

====
